---- MODULE Spec2Model ----
(***************************************************************************)
(* Beads Slack notifier: sliding-window rate limiter, snapshot store,      *)
(* change detection (process_changes) and notification dispatch.           *)
(*                                                                         *)
(* Sources: slack/notifier.py, slack/beads_watcher_template.py,            *)
(* slack/cli.py and dev-infra's secrets/manager.py.                        *)
(***************************************************************************)
EXTENDS Integers, Sequences, FiniteSets, TLC

VARIABLES
    now,              \* the clock reading (time.time() / os.times().elapsed), in seconds
    requests,         \* RateLimiter.requests: deque of admitted timestamps
    calls,            \* history: every allow() call made directly, as [t, ok]
    running,          \* the daemon process is alive (run_daemon is past its baseline)
    store,            \* the lines of issues.jsonl as the most recent parse found them
                      \* (run_daemon's initial load or process_changes)
    read_ok,          \* whether that parse could read the file
    previous_issues,  \* NotifierState.previous_issues: id -> snapshot record
    assignee_issues,  \* NotifierState.assignee_issues: agent -> set of ids
    state_file,       \* the persisted state file (STATE_FILE), or NoFile
    events,           \* the notify_* calls of the handler that ran last, in call order
    pc,               \* the handler that ran last: "init", "run_daemon", "process_changes",
                      \* "shutdown", "notify_review", "on_modified" (it has not, or not
                      \* yet, completed a scan), "crash", "baseline" (run_daemon has not
                      \* yet started the observer)
    last_process_time,\* IssueFileHandler.last_process_time
    webhook_url,      \* SlackConfig.webhook_url ("" when no endpoint is configured)
    notify_on,        \* SlackConfig.notify_created / _in_progress / _closed /
                      \* _agent_complete / _review_request
    san,              \* a call of sanitize_for_slack: its arguments, and its result
                      \* once it has returned
    call,             \* a call of another function of the notifier that changes no
                      \* state: its name, its arguments, and its result once it has
                      \* returned
    file,             \* the lines of issues.jsonl on disk, where the tracker's writes
                      \* are steps of their own (SpecDaemon, SpecLive); elsewhere the
                      \* handlers take the file's contents as an input
    queue,            \* FileModifiedEvents the observer holds, not yet dispatched
    scans,            \* the process_changes activations under way, each at its
                      \* position: "parsed", "diffed", "saving" or "written"
    pid_file,         \* PID_FILE exists
    stopping,         \* signal_handler has run: the observer is told to stop and the
                      \* main thread is on its way out (observer.join())
    secrets_file,     \* .secrets/slack_webhook: whether it exists, its mode, its text
    config_file,      \* slack_config.yaml: absent, unreadable, or its webhook_url entry
    environ,          \* os.environ: SLACK_WEBHOOK_URL and the variable a placeholder names
    outcome,          \* the configuration command that ran last and what it returned
    umask,            \* the process's file mode creation mask
    secrets_dir,      \* SecretsManager.secrets_dir: whether it exists, and its mode
    secret,           \* the files of secrets_dir: name -> whether it exists, mode, text
    returned,         \* the SecretsManager method that ran last, its arguments, and
                      \* what it returned
    state_mode,       \* the permission mode of STATE_FILE (NoMode while it is absent)
    output,           \* what the send() or check command that ran last logged and
                      \* printed, with the endpoint it was configured with and the
                      \* transport's answer
    transport         \* the clock readings of the requests.post calls that the
                      \* daemon's notifier made within the last window_seconds before
                      \* its latest call (older ones are dropped at the next call)

rlVars == <<now, requests, calls>>
configVars == <<webhook_url, notify_on>>
sanVars == <<san, call>>
daemonVars == <<file, queue, scans, pid_file, stopping>>
setupVars == <<secrets_file, config_file, environ, outcome>>
managerVars == <<umask, secrets_dir, secret, returned>>
hostVars == <<umask, secrets_dir, secret, returned, state_mode, output, transport>>
watcherVars == <<running, store, read_ok, previous_issues, assignee_issues, state_file,
                 events, pc, last_process_time>>
vars == <<now, requests, calls, running, store, read_ok, previous_issues,
          assignee_issues, state_file, events, pc, last_process_time, webhook_url,
          notify_on, san, call, file, queue, scans, pid_file, stopping, secrets_file,
          config_file, environ, outcome, umask, secrets_dir, secret, returned,
          state_mode, output, transport>>

----------------------------------------------------------------------------
(* Bounds of the model.                                                    *)

\* RateLimiter(max_requests=..., window_seconds=...): the instance's parameters
\* (the defaults are RATE_LIMIT_MAX = 30 and RATE_LIMIT_WINDOW = 60).
max_requests == 2
window_seconds == 2
\* The clock stops advancing at MaxClock; at most MaxCalls direct allow() calls are logged.
MaxClock == 5
MaxCalls == 6

\* IssueFileHandler.debounce_seconds
debounce_seconds == 1

\* sanitize_for_slack is called on texts of at most MaxTextLen characters, with
\* max_length in 0..MaxLimit.
MaxTextLen == 5
MaxLimit == 4

\* The issues file holds at most MaxLines lines where lines can be malformed.
MaxLines == 3

\* The observer holds at most MaxQueue undispatched events.
MaxQueue == 2

\* write_secret is called with values of at most MaxValueLen characters.
MaxValueLen == 3

\* The secret part of a webhook URL has at most MaxSecretLen characters.
MaxSecretLen == 5

\* An issue has at most MaxComments comments.
MaxComments == 3

----------------------------------------------------------------------------
(* sanitize_for_slack                                                      *)

\* A text is a sequence of code points. The characters that matter:
\* '&' = 38, '<' = 60, '>' = 62, ';' = 59, '.' = 46, BEL = 7 (a control
\* character the pattern removes), TAB = 9, LF = 10, CR = 13 (control characters
\* the pattern leaves in), and the letters of the entities.
AmpEntity == <<38, 97, 109, 112, 59>>
LtEntity == <<38, 108, 116, 59>>
GtEntity == <<38, 103, 116, 59>>
Ellipsis == <<46, 46, 46>>

\* The character class of re.sub(r'[\x00-\x08\x0b\x0c\x0e-\x1f\x7f]', '', text)
ControlChars == (0..8) \cup {11, 12} \cup (14..31) \cup {127}

\* text[:k], Python's slice: a negative k counts from the end of the text.
SliceTo(text, k) ==
    IF k >= 0
    THEN SubSeq(text, 1, IF k < Len(text) THEN k ELSE Len(text))
    ELSE SubSeq(text, 1, IF Len(text) + k > 0 THEN Len(text) + k ELSE 0)

\* if len(text) > max_length: text = text[:max_length - 3] + "..."
Truncate(text, max_length) ==
    IF Len(text) > max_length
    THEN SliceTo(text, max_length - 3) \o Ellipsis
    ELSE text

\* text.replace(c, entity) for a one-character c
RECURSIVE Replace(_, _, _)
Replace(text, c, entity) ==
    IF text = <<>> THEN <<>>
    ELSE (IF Head(text) = c THEN entity ELSE <<Head(text)>>)
             \o Replace(Tail(text), c, entity)

\* re.sub(<the control characters>, '', text)
StripControl(text) == SelectSeq(text, LAMBDA c : c \notin ControlChars)

\* Mutant of sanitize_for_slack: '&' is escaped last, after '<' and '>'.
SanitizeAmpLast(text, max_length) ==
    IF text = <<>> THEN <<>>
    ELSE StripControl(
             Replace(Replace(Replace(Truncate(text, max_length),
                                     60, LtEntity), 62, GtEntity), 38, AmpEntity))

\* sanitize_for_slack(text, max_length): truncate, escape '&', then '<', then
\* '>', then remove the control characters.
sanitize_for_slack(text, max_length) ==
    IF text = <<>> THEN <<>>
    ELSE StripControl(
             Replace(Replace(Replace(Truncate(text, max_length),
                                     38, AmpEntity), 60, LtEntity), 62, GtEntity))

----------------------------------------------------------------------------
(* The payload of a notification                                           *)

\* The default of sanitize_for_slack's max_length, and the limits its callers
\* pass for an id or an agent, for a title, and for a review message.
DefaultMaxLength == 3000
IdMaxLength == 100
TitleMaxLength == 200
MessageMaxLength == 1000

\* The literal parts of the f-strings of notify_in_progress and notify_review.
\* "Work Started: "
WorkStartedText ==
    <<87, 111, 114, 107, 32, 83, 116, 97, 114, 116, 101, 100, 58, 32>>
\* "\n   \"", before the title
TitleOpenText ==
    <<10, 32, 32, 32, 34>>
\* "\"", after the title
Quote ==
    <<34>>
\* "\n   Agent: "
AgentText ==
    <<10, 32, 32, 32, 65, 103, 101, 110, 116, 58, 32>>
\* ":arrow_forward: *Work Started:* `"
WorkStartedBlock ==
    <<58, 97, 114, 114, 111, 119, 95, 102, 111, 114, 119, 97, 114, 100, 58, 32, 42, 87,
      111, 114, 107, 32, 83, 116, 97, 114, 116, 101, 100, 58, 42, 32, 96>>
\* "`\n\"", between the id and the title of a block
TitleOpenBlock ==
    <<96, 10, 34>>
\* "*Agent:* "
AgentBlock ==
    <<42, 65, 103, 101, 110, 116, 58, 42, 32>>
\* "Review Requested\n   Agent: "
ReviewText ==
    <<82, 101, 118, 105, 101, 119, 32, 82, 101, 113, 117, 101, 115, 116, 101, 100, 10,
      32, 32, 32, 65, 103, 101, 110, 116, 58, 32>>
\* "\n   Issue: "
IssueText ==
    <<10, 32, 32, 32, 73, 115, 115, 117, 101, 58, 32>>
\* "\n   Message: "
MessageText ==
    <<10, 32, 32, 32, 77, 101, 115, 115, 97, 103, 101, 58, 32>>
\* ":eyes: *Review Requested*"
ReviewHeadBlock ==
    <<58, 101, 121, 101, 115, 58, 32, 42, 82, 101, 118, 105, 101, 119,
      32, 82, 101, 113, 117, 101, 115, 116, 101, 100, 42>>
\* "*Agent:*\n"
ReviewAgentBlock ==
    <<42, 65, 103, 101, 110, 116, 58, 42, 10>>
\* "*Message:*\n"
ReviewMessageBlock ==
    <<42, 77, 101, 115, 115, 97, 103, 101, 58, 42, 10>>
\* "*Issue:*\n`"
ReviewIssueBlock ==
    <<42, 73, 115, 115, 117, 101, 58, 42, 10, 96>>
\* "`", after the id of a block
Backtick ==
    <<96>>

\* notify_in_progress: text and the texts of blocks, from the issue's id, its
\* title and its assigned agent (<<>> when it has none).
InProgressText(safe_id, safe_title, agent_text) ==
    WorkStartedText \o safe_id \o TitleOpenText \o safe_title \o Quote \o agent_text
InProgressBlocks(safe_id, safe_title, agent, safe_agent) ==
    <<WorkStartedBlock \o safe_id \o TitleOpenBlock \o safe_title \o Quote>>
    \o (IF agent # <<>> THEN <<AgentBlock \o safe_agent>> ELSE <<>>)

\* notify_review: text and the texts of blocks, from the agent id, the issue id
\* (<<>> when there is none) and the message.
ReviewTextOf(agent, issue, safe_message) ==
    ReviewText \o agent \o (IF issue # <<>> THEN IssueText \o issue ELSE <<>>)
    \o MessageText \o safe_message
ReviewBlocks(agent, issue, safe_message) ==
    <<ReviewHeadBlock, ReviewAgentBlock \o agent, ReviewMessageBlock \o safe_message>>
    \o (IF issue # <<>> THEN <<ReviewIssueBlock \o issue \o Backtick>> ELSE <<>>)

\* Mutant of SendPayload: send() passes text on as it received it.
SendPayloadAsGiven(text, blocks) == [text |-> text, blocks |-> blocks]

\* send(text, blocks), once the endpoint and the rate limiter have let the
\* message through: the payload handed to requests.post.
SendPayload(text, blocks) ==
    [text |-> sanitize_for_slack(text, DefaultMaxLength), blocks |-> blocks]

\* The payload notify_in_progress delivers for an issue.
NotifyInProgressPayload(id, title, agent) ==
    LET safe_title == sanitize_for_slack(title, TitleMaxLength)
        safe_id == sanitize_for_slack(id, IdMaxLength)
        agent_text == IF agent # <<>>
                      THEN AgentText \o sanitize_for_slack(agent, DefaultMaxLength)
                      ELSE <<>>
    IN  SendPayload(InProgressText(safe_id, safe_title, agent_text),
                    InProgressBlocks(safe_id, safe_title, agent,
                                     sanitize_for_slack(agent, IdMaxLength)))

\* The payload cli.notify_review delivers.
NotifyReviewPayload(agent_id, issue_id, message) ==
    LET agent == sanitize_for_slack(agent_id, IdMaxLength)
        issue == sanitize_for_slack(issue_id, IdMaxLength)
        safe_message == sanitize_for_slack(message, MessageMaxLength)
    IN  SendPayload(ReviewTextOf(agent, issue, safe_message),
                    ReviewBlocks(agent, issue, safe_message))

----------------------------------------------------------------------------
(* RateLimiter                                                             *)

\* while self.requests and self.requests[0] < now - self.window_seconds: popleft()
RECURSIVE PruneOld(_, _)
PruneOld(reqs, t) ==
    IF reqs # <<>> /\ Head(reqs) < t - window_seconds
    THEN PruneOld(Tail(reqs), t)
    ELSE reqs

\* Mutant of Allow: the limit test is off by one (> instead of >=).
AllowOffByOne(reqs, t) ==
    LET pruned == PruneOld(reqs, t) IN
    IF Len(pruned) > max_requests
    THEN [ok |-> FALSE, requests |-> pruned]
    ELSE [ok |-> TRUE, requests |-> Append(pruned, t)]

\* Mutant of Allow: the limit is tested before the old timestamps are pruned.
AllowCheckFirst(reqs, t) ==
    IF Len(reqs) >= max_requests
    THEN [ok |-> FALSE, requests |-> reqs]
    ELSE [ok |-> TRUE, requests |-> Append(PruneOld(reqs, t), t)]

\* RateLimiter.allow() at clock reading t: the result and the deque it leaves.
Allow(reqs, t) ==
    LET pruned == PruneOld(reqs, t) IN
    IF Len(pruned) >= max_requests
    THEN [ok |-> FALSE, requests |-> pruned]
    ELSE [ok |-> TRUE, requests |-> Append(pruned, t)]

----------------------------------------------------------------------------
(* Issues, the issue store and the snapshot                                *)

None == "none"                 \* Python's None
EmptyMap == [k \in {} |-> {}]  \* an empty dict
\* The state file does not exist.
NoFile == [exists |-> FALSE, valid |-> FALSE, previous_issues |-> EmptyMap,
           assignee_issues |-> EmptyMap]
\* The state file as open(self.state_path, "w") leaves it until json.dump has
\* written it: it exists and holds no complete JSON document.
Torn == [exists |-> TRUE, valid |-> FALSE, previous_issues |-> EmptyMap,
         assignee_issues |-> EmptyMap]

Ids == {"X", "Y"}
Statuses == {"open", "in_progress", "closed", "blocked"}
Agents == {"A", "B"}

\* A line of issues.jsonl that holds a JSON object, as Issue.from_dict(data)
\* reads it: the fields the engine uses. comments holds, per comment and oldest
\* first, the token of its "@assigned <token>" directive, or None when the
\* comment's text has none.
Issue(id, status, assignee, comments) ==
    [json |-> "object", id |-> id, title |-> "t", status |-> status,
     assignee |-> assignee, comments |-> comments]

\* The other lines a file can hold: a line that is empty once stripped; a line
\* json.loads rejects (invalid JSON, a partial trailing line); a line of valid
\* JSON that is not an object (a list, a string, a number, null).
BlankLine == [json |-> "blank"]
BadJson == [json |-> "invalid"]
NotObject == [json |-> "array"]

\* A comment's text is the sequence of its words (its maximal runs of
\* characters that are not whitespace).
\* re.search(r"@assigned\s+(\S+)", text): the word after the first word that
\* ends with "@assigned" and has a word after it, or None.
AtAssigned == {"@assigned", "re@assigned"}
RECURSIVE DirectiveFrom(_, _)
DirectiveFrom(text, k) ==
    IF k >= Len(text) THEN None
    ELSE IF text[k] \in AtAssigned THEN text[k + 1]
    ELSE DirectiveFrom(text, k + 1)
Directive(text) == DirectiveFrom(text, 1)

\* for comment in reversed(self.comments): the newest comment with a directive
RECURSIVE NewestDirective(_, _)
NewestDirective(comments, i) ==
    IF i = 0 THEN None
    ELSE IF comments[i] # None THEN comments[i]
    ELSE NewestDirective(comments, i - 1)

\* Mutant of get_assigned_agent: a directive in the comments overrides the
\* assignee field.
GetAssignedAgentCommentsFirst(issue) ==
    IF NewestDirective(issue.comments, Len(issue.comments)) # None
    THEN NewestDirective(issue.comments, Len(issue.comments))
    ELSE IF issue.assignee \notin {None, ""} THEN issue.assignee
    ELSE None

\* Issue.get_assigned_agent(): the explicit assignee, else the newest directive
get_assigned_agent(issue) ==
    IF issue.assignee \notin {None, ""}
    THEN issue.assignee
    ELSE NewestDirective(issue.comments, Len(issue.comments))

\* Mutant of DictPut: the first record of an id is kept.
DictPutKeepsFirst(d, issue) ==
    IF \E i \in 1..Len(d) : d[i].id = issue.id THEN d ELSE Append(d, issue)

\* issues[issue.id] = issue on a dict kept as the sequence of its values in
\* insertion order: a known id keeps its place and takes the new value.
DictPut(d, issue) ==
    IF \E i \in 1..Len(d) : d[i].id = issue.id
    THEN [i \in 1..Len(d) |-> IF d[i].id = issue.id THEN issue ELSE d[i]]
    ELSE Append(d, issue)

\* for line in f: a blank line is skipped; a JSONDecodeError is logged and the
\* loop goes on; on a line that is JSON but no object, Issue.from_dict raises
\* AttributeError, which leaves the loop for the outer handler: the issues
\* collected so far are returned.
RECURSIVE ParseLines(_, _)
ParseLines(lines, d) ==
    IF lines = <<>> THEN d
    ELSE IF Head(lines).json \in {"blank", "invalid"} THEN ParseLines(Tail(lines), d)
    ELSE IF Head(lines).json # "object" THEN d
    ELSE ParseLines(Tail(lines), DictPut(d, Head(lines)))

\* parse_issues_jsonl(path): ok is FALSE when the file does not exist or cannot
\* be opened, and the result is then the empty dict.
parse_issues_jsonl(lines, ok) ==
    IF ~ok THEN <<>> ELSE ParseLines(lines, <<>>)

\* The record process_changes and run_daemon keep per issue.
SnapshotRecord(issue) ==
    [id |-> issue.id, status |-> issue.status, assignee |-> issue.assignee,
     title |-> issue.title]

IdsOf(cur) == {cur[i].id : i \in 1..Len(cur)}
IssueOf(cur, id) == cur[CHOOSE i \in 1..Len(cur) : cur[i].id = id]

\* Mutant of SnapshotOf: the last issue of the parse is left out of the snapshot.
SnapshotOfMissesLast(cur) ==
    [id \in IdsOf(SubSeq(cur, 1, Len(cur) - 1)) |-> SnapshotRecord(IssueOf(cur, id))]

\* self.state.previous_issues = {issue_id: {...} for issue_id, issue in current_issues.items()}
SnapshotOf(cur) == [id \in IdsOf(cur) |-> SnapshotRecord(IssueOf(cur, id))]

----------------------------------------------------------------------------
(* NotifierState                                                           *)

\* list(v) / set(v): the JSON form of an assignee's set and back.
RECURSIVE SetToList(_)
SetToList(S) ==
    IF S = {} THEN <<>>
    ELSE LET x == CHOOSE y \in S : TRUE IN <<x>> \o SetToList(S \ {x})

ListToSet(l) == {l[i] : i \in 1..Len(l)}

\* NotifierState.save(): the content json.dump writes to the state file.
Save(prev, ai) ==
    [exists |-> TRUE, valid |-> TRUE, previous_issues |-> prev,
     assignee_issues |-> [k \in DOMAIN ai |-> SetToList(ai[k])]]

\* NotifierState.load(): the state a new process starts from. A missing file
\* leaves the empty state, and so does one json.load cannot read (the
\* exception is logged).
Load(f) ==
    IF ~f.exists \/ ~f.valid
    THEN [previous_issues |-> EmptyMap, assignee_issues |-> EmptyMap]
    ELSE [previous_issues |-> f.previous_issues,
          assignee_issues |->
              [k \in DOMAIN f.assignee_issues |-> ListToSet(f.assignee_issues[k])]]

\* NotifierState.update_assignee_tracking(issue, old_status)
update_assignee_tracking(ai, issue) ==
    LET agent == get_assigned_agent(issue)
        ai1 == IF agent \in DOMAIN ai THEN ai ELSE ai @@ (agent :> {})
    IN  IF agent = None THEN ai
        ELSE IF issue.status = "closed"
             THEN [ai1 EXCEPT ![agent] = @ \ {issue.id}]
        ELSE IF issue.status \in {"open", "in_progress"}
             THEN [ai1 EXCEPT ![agent] = @ \cup {issue.id}]
        ELSE ai1

\* NotifierState.get_open_issues_for_assignee(agent)
get_open_issues_for_assignee(ai, agent) ==
    IF agent \in DOMAIN ai THEN ai[agent] ELSE {}

----------------------------------------------------------------------------
(* SlackNotifier                                                           *)

\* SlackConfig's defaults for the notify_* switches.
AllOn == [created |-> TRUE, in_progress |-> TRUE, closed |-> TRUE, agent_complete |-> TRUE,
          review_request |-> TRUE]

\* What the transport answers to one requests.post: a status code, or the
\* exception raised.
Responses == {"200", "500", "timeout"}

\* Mutant of send: a message the limiter denies is posted all the same.
SendDespiteDenial(reqs, posts, t, resp) ==
    IF webhook_url = ""
    THEN [outcome |-> "no_webhook", result |-> FALSE, posted |-> FALSE,
          requests |-> reqs, posts |-> posts]
    ELSE LET a == Allow(reqs, t) IN
         IF ~a.ok
         THEN [outcome |-> "rate_limited", result |-> resp[posts + 1] = "200",
               posted |-> TRUE, requests |-> a.requests, posts |-> posts + 1]
         ELSE [outcome |-> "allowed", result |-> resp[posts + 1] = "200",
               posted |-> TRUE, requests |-> a.requests, posts |-> posts + 1]

\* Mutant of send: the transport is called without asking the rate limiter.
SendUngated(reqs, posts, t, resp) ==
    IF webhook_url = ""
    THEN [outcome |-> "no_webhook", result |-> FALSE, posted |-> FALSE,
          requests |-> reqs, posts |-> posts]
    ELSE [outcome |-> "allowed", result |-> resp[posts + 1] = "200",
          posted |-> TRUE, requests |-> reqs, posts |-> posts + 1]

\* SlackNotifier.send(): reqs is the limiter's deque, posts the number of
\* requests.post calls this scan has made, resp[n] the answer to the n-th.
\* outcome names the path taken, result is the value returned, posted says
\* whether requests.post was called.
send(reqs, posts, t, resp) ==
    IF webhook_url = ""
    THEN [outcome |-> "no_webhook", result |-> FALSE, posted |-> FALSE,
          requests |-> reqs, posts |-> posts]
    ELSE LET a == Allow(reqs, t) IN
         IF ~a.ok
         THEN [outcome |-> "rate_limited", result |-> FALSE, posted |-> FALSE,
               requests |-> a.requests, posts |-> posts]
         ELSE [outcome |-> "allowed", result |-> resp[posts + 1] = "200",
               posted |-> TRUE, requests |-> a.requests, posts |-> posts + 1]

\* Mutant of Dispatch: a switched-off notification still asks the rate limiter.
DispatchCountsDisabled(st, ev, enabled, t, resp) ==
    IF ~enabled
    THEN [st EXCEPT !.events = Append(@, ev),
                    !.requests = Allow(@, t).requests]
    ELSE LET r == send(st.requests, st.posts, t, resp) IN
         [st EXCEPT !.events = Append(@, [ev EXCEPT !.outcome = r.outcome,
                                                    !.result = r.result,
                                                    !.posted = r.posted]),
                    !.requests = r.requests,
                    !.posts = r.posts]

\* One notify_* call: ev is the call (kind and arguments), enabled its switch.
\* st is the scan's running state: [ai, events, requests, posts, notify_on],
\* notify_on being the switches of the notifier's config.
Dispatch(st, ev, enabled, t, resp) ==
    IF ~enabled
    THEN [st EXCEPT !.events = Append(@, ev)]
    ELSE \* self.send(text, blocks)
         LET r == send(st.requests, st.posts, t, resp) IN
         [st EXCEPT !.events = Append(@, [ev EXCEPT !.outcome = r.outcome,
                                                    !.result = r.result,
                                                    !.posted = r.posted]),
                    !.requests = r.requests,
                    !.posts = r.posts]

\* The record of a notify_* call, as a switched-off notify_* leaves it. old is
\* the snapshot's status of the issue (None for an unknown id). For agent_complete,
\* closed holds the ids of closed_by_agent, tracked says whether the agent's set
\* held the issue before update_assignee_tracking removed it, and open_after is
\* the agent's set after it.
Event(kind, issue, old, agent, closed, tracked, open_after) ==
    [kind |-> kind, id |-> issue.id, status |-> issue.status, old |-> old,
     agent |-> agent, closed |-> closed, tracked |-> tracked,
     open_after |-> open_after,
     outcome |-> "skipped", result |-> FALSE, posted |-> FALSE]

notify_created(st, issue, t, resp) ==
    Dispatch(st, Event("created", issue, None, get_assigned_agent(issue), <<>>, FALSE, {}),
             st.notify_on.created, t, resp)

notify_in_progress(st, issue, old, t, resp) ==
    Dispatch(st, Event("in_progress", issue, old, get_assigned_agent(issue), <<>>, FALSE, {}),
             st.notify_on.in_progress, t, resp)

notify_closed(st, issue, old, t, resp) ==
    Dispatch(st, Event("closed", issue, old, get_assigned_agent(issue), <<>>, FALSE, {}),
             st.notify_on.closed, t, resp)

notify_agent_complete(st, issue, old, agent, closed_issues, tracked, open_after, t, resp) ==
    Dispatch(st, Event("agent_complete", issue, old, agent,
                       [i \in 1..Len(closed_issues) |-> closed_issues[i].id],
                       tracked, open_after),
             st.notify_on.agent_complete, t, resp)

\* The requests.post calls of the notifier that are less than window_seconds
\* old at clock reading t, and the record of them after a scan at t has made
\* the notify_* calls evs.
Recent(tr, t) == SelectSeq(tr, LAMBDA x : t - x < window_seconds)
PostedIn(evs) == Cardinality({i \in 1..Len(evs) : evs[i].posted})
Transport(tr, evs, t) == Recent(tr, t) \o [i \in 1..PostedIn(evs) |-> t]

----------------------------------------------------------------------------
(* IssueFileHandler.process_changes                                        *)

\* F at the value of e, with e evaluated once (a local variable of the code).
With(e, F(_)) == CHOOSE y \in {F(x) : x \in {e}} : TRUE

Track(st, issue) == [st EXCEPT !.ai = update_assignee_tracking(@, issue)]

\* Mutant of ClosedTransition: the agent's open issues are read before
\* update_assignee_tracking has removed the closed issue.
ClosedTransitionStaleIndex(cur, issue, old, st, t, resp) ==
    LET agent == get_assigned_agent(issue)
        ClosedBy(i) == get_assigned_agent(i) = agent /\ i.status = "closed"
        closed_by_agent == SelectSeq(cur, ClosedBy)
    IN  With(notify_closed(st, issue, old, t, resp), LAMBDA st1 :
            IF agent = None THEN st1
            ELSE With(Track(st1, issue), LAMBDA st2 :
                IF get_open_issues_for_assignee(st1.ai, agent) = {}
                   /\ closed_by_agent # <<>>
                THEN notify_agent_complete(
                         st2, issue, old, agent, closed_by_agent,
                         issue.id \in get_open_issues_for_assignee(st1.ai, agent),
                         get_open_issues_for_assignee(st2.ai, agent),
                         t, resp)
                ELSE st2))

\* Mutant of ClosedTransition: the agent's open issues are not tested.
ClosedTransitionNoEmptyCheck(cur, issue, old, st, t, resp) ==
    LET agent == get_assigned_agent(issue)
        ClosedBy(i) == get_assigned_agent(i) = agent /\ i.status = "closed"
        closed_by_agent == SelectSeq(cur, ClosedBy)
    IN  With(notify_closed(st, issue, old, t, resp), LAMBDA st1 :
            IF agent = None THEN st1
            ELSE With(Track(st1, issue), LAMBDA st2 :
                IF closed_by_agent # <<>>
                THEN notify_agent_complete(
                         st2, issue, old, agent, closed_by_agent,
                         issue.id \in get_open_issues_for_assignee(st1.ai, agent),
                         get_open_issues_for_assignee(st2.ai, agent),
                         t, resp)
                ELSE st2))

\* The branch of a transition to closed: notify_closed, then the check whether
\* the agent has completed all work.
ClosedTransition(cur, issue, old, st, t, resp) ==
    LET agent == get_assigned_agent(issue)
        ClosedBy(i) == get_assigned_agent(i) = agent /\ i.status = "closed"
        closed_by_agent == SelectSeq(cur, ClosedBy)
    IN  With(notify_closed(st, issue, old, t, resp), LAMBDA st1 :
            IF agent = None THEN st1
            ELSE With(Track(st1, issue), LAMBDA st2 :
                IF get_open_issues_for_assignee(st2.ai, agent) = {}
                   /\ closed_by_agent # <<>>
                THEN notify_agent_complete(
                         st2, issue, old, agent, closed_by_agent,
                         issue.id \in get_open_issues_for_assignee(st1.ai, agent),
                         get_open_issues_for_assignee(st2.ai, agent),
                         t, resp)
                ELSE st2))

\* Mutant of StatusChange: every change to a status other than closed is
\* announced as work started.
StatusChangeAnyStart(cur, issue, old, st, t, resp) ==
    LET st1 == IF issue.status # "closed"
               THEN notify_in_progress(st, issue, old, t, resp)
               ELSE IF issue.status = "closed" /\ old # "closed"
               THEN ClosedTransition(cur, issue, old, st, t, resp)
               ELSE st
    IN  Track(st1, issue)

\* The branch of a changed status.
StatusChange(cur, issue, old, st, t, resp) ==
    LET st1 == IF issue.status = "in_progress" /\ old # "in_progress"
               THEN notify_in_progress(st, issue, old, t, resp)
               ELSE IF issue.status = "closed" /\ old # "closed"
               THEN ClosedTransition(cur, issue, old, st, t, resp)
               ELSE st
    IN  Track(st1, issue)

\* Mutant of ProcessIssue: an unknown issue is announced and then compared with
\* a previous status of open.
ProcessIssueNewAsOpen(cur, issue, prev, st, t, resp) ==
    LET known == issue.id \in DOMAIN prev
        st1 == IF ~known
               THEN IF issue.status # "open"
                    THEN StatusChange(cur, issue, "open",
                                      notify_created(st, issue, t, resp), t, resp)
                    ELSE Track(notify_created(st, issue, t, resp), issue)
               ELSE IF prev[issue.id].status # issue.status
               THEN StatusChange(cur, issue, prev[issue.id].status, st, t, resp)
               ELSE st
        old_assignee == IF known THEN prev[issue.id].assignee ELSE None
    IN  IF old_assignee # issue.assignee THEN Track(st1, issue) ELSE st1

\* The body of the loop over current_issues.items(), for one issue.
ProcessIssue(cur, issue, prev, st, t, resp) ==
    LET known == issue.id \in DOMAIN prev
        st1 == IF ~known
               THEN Track(notify_created(st, issue, t, resp), issue)
               ELSE IF prev[issue.id].status # issue.status
               THEN StatusChange(cur, issue, prev[issue.id].status, st, t, resp)
               ELSE st
        old_assignee == IF known THEN prev[issue.id].assignee ELSE None
    IN  IF old_assignee # issue.assignee THEN Track(st1, issue) ELSE st1

\* Mutant of ScanFrom: the loop ends at the first notification that was posted
\* and not delivered.
RECURSIVE ScanFromStopsOnFailure(_, _, _, _, _, _)
ScanFromStopsOnFailure(cur, i, prev, st, t, resp) ==
    IF i > Len(cur) THEN st
    ELSE With(ProcessIssue(cur, cur[i], prev, st, t, resp), LAMBDA st1 :
             IF \E k \in 1..Len(st1.events) :
                    st1.events[k].posted /\ ~st1.events[k].result
             THEN st1
             ELSE ScanFromStopsOnFailure(cur, i + 1, prev, st1, t, resp))

RECURSIVE ScanFrom(_, _, _, _, _, _)
ScanFrom(cur, i, prev, st, t, resp) ==
    IF i > Len(cur) THEN st
    ELSE With(ProcessIssue(cur, cur[i], prev, st, t, resp), LAMBDA st1 :
             ScanFrom(cur, i + 1, prev, st1, t, resp))

\* Mutant of ProcessChanges: the new snapshot is merged into the old one, so
\* the records of ids absent from the parse are carried forward.
ProcessChangesKeepsAbsent(cur, prev, ai, reqs, t, resp) ==
    With(ScanFrom(cur, 1, prev,
                  [ai |-> ai, events |-> <<>>, requests |-> reqs, posts |-> 0,
                   notify_on |-> notify_on],
                  t, resp),
         LAMBDA st :
            [previous_issues |-> SnapshotOf(cur) @@ prev, assignee_issues |-> st.ai,
             events |-> st.events, requests |-> st.requests])

\* process_changes on the parsed issues cur: the events it raises and the state
\* it leaves.
ProcessChanges(cur, prev, ai, reqs, t, resp) ==
    With(ScanFrom(cur, 1, prev,
                  [ai |-> ai, events |-> <<>>, requests |-> reqs, posts |-> 0,
                   notify_on |-> notify_on],
                  t, resp),
         LAMBDA st :
            [previous_issues |-> SnapshotOf(cur), assignee_issues |-> st.ai,
             events |-> st.events, requests |-> st.requests])

\* Mutant of Baseline: the initial load announces every unknown issue.
RECURSIVE BaselineNotifies(_, _, _, _)
BaselineNotifies(cur, i, prev, ai) ==
    IF i > Len(cur)
    THEN [previous_issues |-> prev, assignee_issues |-> ai, events |-> <<>>]
    ELSE IF cur[i].id \in DOMAIN prev
         THEN BaselineNotifies(cur, i + 1, prev, ai)
    ELSE With(update_assignee_tracking(ai, cur[i]), LAMBDA ai1 :
             With(BaselineNotifies(cur, i + 1,
                                   prev @@ (cur[i].id :> SnapshotRecord(cur[i])), ai1),
                  LAMBDA r :
                     [r EXCEPT !.events =
                         <<Event("created", cur[i], None, get_assigned_agent(cur[i]),
                                 <<>>, FALSE, {})>> \o @]))

\* run_daemon's initial load: unknown issues enter the state without a
\* notification; events are the notify_* calls it makes (none).
RECURSIVE Baseline(_, _, _, _)
Baseline(cur, i, prev, ai) ==
    IF i > Len(cur)
    THEN [previous_issues |-> prev, assignee_issues |-> ai, events |-> <<>>]
    ELSE IF cur[i].id \in DOMAIN prev
         THEN Baseline(cur, i + 1, prev, ai)
    ELSE With(update_assignee_tracking(ai, cur[i]), LAMBDA ai1 :
             Baseline(cur, i + 1, prev @@ (cur[i].id :> SnapshotRecord(cur[i])), ai1))

----------------------------------------------------------------------------
(* Configuration: the secrets file, the config file, the environment       *)

\* The secrets file does not exist.
NoSecrets == [exists |-> FALSE, mode |-> "none", text |-> ""]
\* What a secrets file can be: mode REQUIRED_FILE_MODE or wider; its stripped
\* text empty, the comment line init_secrets_file writes, or a webhook URL.
Placeholder == "# Paste your Slack webhook URL here (replace this line)"
SecretsUrl == "https://hooks.slack.com/services/T/B/secret"
SecretsFiles ==
    {NoSecrets} \cup [exists : {TRUE}, mode : {"0600", "0644"},
                      text : {"", Placeholder, SecretsUrl}]

\* The config file: absent; not loadable by yaml.safe_load; or loaded, with
\* data.get("webhook_url", "") empty, a literal URL, or the placeholder ${HOOK}.
NoConfig == [exists |-> FALSE, valid |-> FALSE, webhook_url |-> ""]
ConfigUrl == "https://hooks.slack.com/services/T/B/config"
ConfigFiles ==
    {NoConfig, [exists |-> TRUE, valid |-> FALSE, webhook_url |-> ""]}
    \cup [exists : {TRUE}, valid : {TRUE}, webhook_url : {"", ConfigUrl, "${HOOK}"}]

\* os.environ: a variable is unset (None) or holds a URL.
EnvUrl == "https://hooks.slack.com/services/T/B/env"
HookUrl == "https://hooks.slack.com/services/T/B/hook"
Environs == [SLACK_WEBHOOK_URL : {None, EnvUrl}, HOOK : {None, HookUrl}]

\* os.environ.get(name, "")
EnvGet(env, name) == IF env[name] = None THEN "" ELSE env[name]

\* webhook_url.startswith("${") and webhook_url.endswith("}")
IsPlaceholder(url) == url = "${HOOK}"

\* enforce_file_permissions(path): chmod to REQUIRED_FILE_MODE when the mode
\* differs; chmod_ok is FALSE when os.chmod raises OSError (logged, ignored).
enforce_file_permissions(f, chmod_ok) ==
    IF f.exists /\ f.mode # "0600" /\ chmod_ok THEN [f EXCEPT !.mode = "0600"] ELSE f

\* SlackConfig.load(): the webhook_url of the configuration it returns.
SlackConfigLoad(secrets, config, env) ==
    LET fromSecrets == IF secrets.exists THEN secrets.text ELSE ""
        fromConfig ==
            IF fromSecrets # "" THEN fromSecrets
            ELSE IF IsPlaceholder(config.webhook_url) THEN EnvGet(env, "HOOK")
            ELSE config.webhook_url
    IN  IF config.exists /\ ~config.valid THEN fromSecrets
        ELSE LET url == IF config.exists THEN fromConfig ELSE fromSecrets
             IN  IF url # "" THEN url ELSE EnvGet(env, "SLACK_WEBHOOK_URL")

\* get_webhook_url(): the URL, "" or None.
GetWebhookUrl(secrets, config, env) ==
    IF secrets.exists /\ secrets.text # "" /\ secrets.text # Placeholder
    THEN secrets.text
    ELSE IF env.SLACK_WEBHOOK_URL # None THEN env.SLACK_WEBHOOK_URL
    ELSE IF config.exists /\ config.valid
         THEN IF IsPlaceholder(config.webhook_url) THEN EnvGet(env, "HOOK")
              ELSE IF config.webhook_url # "" THEN config.webhook_url
              ELSE None
    ELSE None

\* check_config(config_path): True when the test post to the loaded endpoint
\* is answered with 200; resp is the transport's answer.
CheckConfig(secrets, config, env, resp) ==
    IF ~config.exists /\ ~secrets.exists THEN FALSE
    ELSE IF SlackConfigLoad(secrets, config, env) = "" THEN FALSE
    ELSE resp = "200"

\* The one-shot notifier's check command: its exit status.
CliCheck(secrets, config, env) ==
    IF GetWebhookUrl(secrets, config, env) \in {None, ""} THEN 1 ELSE 0

\* init_secrets_file(): what it returns and the secrets file it leaves.
\* create_ok is FALSE when mkdir or write_text raises.
InitSecretsFile(secrets, chmod_ok, create_ok) ==
    IF secrets.exists
    THEN [ok |-> TRUE, secrets |-> enforce_file_permissions(secrets, chmod_ok)]
    ELSE IF create_ok
         THEN [ok |-> TRUE,
               secrets |-> [exists |-> TRUE, mode |-> "0600", text |-> Placeholder]]
    ELSE [ok |-> FALSE, secrets |-> secrets]

----------------------------------------------------------------------------
(* File modes, and SecretsManager (dev-infra, secrets/manager.py)          *)

\* A permission mode is the set of its bits: 0600 is {"ur", "uw"}.
NoMode == {}
Mode0400 == {"ur"}
Mode0600 == {"ur", "uw"}
Mode0644 == {"ur", "uw", "gr", "or"}
Mode0666 == {"ur", "uw", "gr", "gw", "or", "ow"}
Mode0700 == {"ur", "uw", "ux"}
Mode0755 == {"ur", "uw", "ux", "gr", "gx", "or", "ox"}
\* The usual masks: 022 and 077.
Umask022 == {"gw", "ow"}
Umask077 == {"gr", "gw", "gx", "or", "ow", "ox"}
Umasks == {Umask022, Umask077}

\* The mode of a file that open(path, "w") or write_text creates.
CreateMode(mask) == Mode0666 \ mask

\* The secret names of the model, and the values: texts over 'a', space, LF
\* and CR.
Names == {"test_service", "other"}
ValueChars == {97, 32, 10, 13}
Values == UNION {[1..k -> ValueChars] : k \in 0..MaxValueLen}
NoDir == [exists |-> FALSE, mode |-> NoMode]
NoSecret == [exists |-> FALSE, mode |-> NoMode, text |-> <<>>]

\* Text mode: write_text turns '\n' into os.linesep, which is '\n' on the
\* Linux hosts the images run on; read_text reads with universal newlines,
\* where '\r\n' and a lone '\r' both come back as '\n'.
Linesep == <<10>>
RECURSIVE WriteText(_)
WriteText(text) ==
    IF text = <<>> THEN <<>>
    ELSE (IF Head(text) = 10 THEN Linesep ELSE <<Head(text)>>) \o WriteText(Tail(text))

RECURSIVE ReadText(_)
ReadText(data) ==
    IF data = <<>> THEN <<>>
    ELSE IF Head(data) = 13
         THEN <<10>> \o ReadText(IF Len(data) > 1 /\ data[2] = 10
                                 THEN Tail(Tail(data)) ELSE Tail(data))
    ELSE <<Head(data)>> \o ReadText(Tail(data))

\* str.strip(): the characters str.isspace() accepts, below U+0100.
Whitespace == (9..13) \cup (28..32) \cup {133, 160}
RECURSIVE LStrip(_)
LStrip(text) ==
    IF text # <<>> /\ Head(text) \in Whitespace THEN LStrip(Tail(text)) ELSE text
RECURSIVE RStrip(_)
RStrip(text) ==
    IF text # <<>> /\ text[Len(text)] \in Whitespace
    THEN RStrip(SubSeq(text, 1, Len(text) - 1)) ELSE text
Strip(text) == RStrip(LStrip(text))

\* SecretsManager._ensure_dir: mkdir(parents=True, mode=0o700), which the
\* umask applies to, or chmod 0700 of the directory that exists.
EnsureDir(dir, mask) ==
    IF ~dir.exists THEN [exists |-> TRUE, mode |-> Mode0700 \ mask]
    ELSE [dir EXCEPT !.mode = Mode0700]

\* SecretsManager.write_secret for an unprivileged process: the directory and
\* the files it leaves, and whether write_text raised (PermissionError).
WriteSecret(dir, files, mask, name, value) ==
    LET d == EnsureDir(dir, mask)
        f == files[name]
        allowed == /\ "ux" \in d.mode
                   /\ IF f.exists THEN "uw" \in f.mode ELSE "uw" \in d.mode
    IN  IF allowed
        THEN [dir |-> d, raised |-> FALSE,
              files |-> [files EXCEPT ![name] = [exists |-> TRUE, mode |-> Mode0600,
                                                 text |-> WriteText(value)]]]
        ELSE [dir |-> d, raised |-> TRUE, files |-> files]

\* SecretsManager.read_secret: None, or the stripped text.
ReadSecret(files, name) ==
    IF ~files[name].exists THEN [isNone |-> TRUE, text |-> <<>>]
    ELSE [isNone |-> FALSE, text |-> Strip(ReadText(files[name].text))]

\* SecretsManager.validate_permissions, and validate_secret_file of the path
ValidatePermissions(files, name) == files[name].exists /\ files[name].mode = Mode0600

----------------------------------------------------------------------------
(* Log lines and printed output                                            *)

\* A text of the output is a sequence of pieces: a fixed piece of a message
\* is one string, and the parts of a webhook URL are spelled character by
\* character. An endpoint https://hooks.slack.com/services/<team>/<bot>/<secret>
\* is the record of its three parts; NoUrl is the empty webhook_url.
SlackPrefix == "https://hooks.slack.com/services/"
UrlChars == {"T", "B", "0", "1", "x", "y"}
SecretTexts == UNION {[1..k -> {"x", "y"}] : k \in 1..MaxSecretLen}
NoUrl == [set |-> FALSE, team |-> <<>>, bot |-> <<>>, secret |-> <<>>]
LogUrls == [set : {TRUE}, team : {<<"T", "0", "0", "0", "1">>}, bot : {<<"B", "1">>},
            secret : SecretTexts]
PathText(u) == u.team \o <<"/">> \o u.bot \o <<"/">> \o u.secret
UrlText(u) == <<SlackPrefix>> \o PathText(u)

\* s[:n] and s[-n:]
FirstN(t, n) == SubSeq(t, 1, IF n < Len(t) THEN n ELSE Len(t))
LastN(t, n) == SubSeq(t, IF Len(t) > n THEN Len(t) - n + 1 ELSE 1, Len(t))

\* mask_url(url) for an empty url and for a hooks.slack.com url, where
\* url.split("/") ends with team, bot and secret.
mask_url(u) ==
    IF ~u.set THEN <<"(not set)">>
    ELSE <<SlackPrefix>> \o FirstN(u.team, 4) \o <<".../">> \o LastN(u.secret, 4)

\* re.sub(r'https://hooks\.slack\.com/services/[A-Za-z0-9/]+', mask, text)
RECURSIVE SkipUrlChars(_)
SkipUrlChars(t) ==
    IF t # <<>> /\ Head(t) \in UrlChars \cup {"/"} THEN SkipUrlChars(Tail(t)) ELSE t
RECURSIVE MaskWebhook(_, _)
MaskWebhook(t, mask) ==
    IF t = <<>> THEN <<>>
    ELSE IF Head(t) = SlackPrefix /\ Len(t) > 1 /\ t[2] \in UrlChars \cup {"/"}
         THEN <<mask>> \o MaskWebhook(SkipUrlChars(Tail(t)), mask)
    ELSE <<Head(t)>> \o MaskWebhook(Tail(t), mask)

\* What the transport can answer: a status, a timeout, or another
\* RequestException, whose text names no URL (a reset connection), quotes the
\* whole URL, or, as the connection errors of the HTTP library do, names the
\* URL's path ("Max retries exceeded with url: /services/...").
LogResponses == {"200", "500", "timeout", "error", "error_url", "error_path"}
ExceptionText(u, resp) ==
    IF resp = "error_url" THEN <<"Invalid URL '">> \o UrlText(u) \o <<"'">>
    ELSE IF resp = "error_path"
         THEN <<"HTTPSConnectionPool(host='hooks.slack.com', port=443): ",
                "Max retries exceeded with url: /services/">> \o PathText(u)
              \o <<" (Caused by NewConnectionError)">>
    ELSE IF resp = "timeout"
         THEN <<"HTTPSConnectionPool(host='hooks.slack.com', port=443): ",
                "Read timed out. (read timeout=10)">>
    ELSE <<"Connection aborted.">>

\* SensitiveDataFilter.filter on a log record's message
SensitiveDataFilter(t) == MaskWebhook(t, "[WEBHOOK_URL_MASKED]")

\* The log line of SlackNotifier.send(), as the logger's filter leaves it;
\* allowed is the rate limiter's answer.
SendLog(u, allowed, resp) ==
    SensitiveDataFilter(
        IF ~u.set THEN <<"No webhook URL configured - skipping notification">>
        ELSE IF ~allowed THEN <<"Rate limit exceeded">>
        ELSE IF resp = "200" THEN <<"Sent notification: ", "text", "...">>
        ELSE IF resp = "500" THEN <<"Slack API error: HTTP ", "500">>
        ELSE IF resp = "timeout" THEN <<"Slack API timeout">>
        ELSE <<"Failed to send Slack notification: ">>
             \o MaskWebhook(ExceptionText(u, resp), "[MASKED]"))

\* What check_config prints from its "Webhook URL:" line on, for a
\* configuration that load() found.
CheckConfigOutput(u, resp) ==
    IF ~u.set
    THEN <<"Webhook URL: ", "NOT CONFIGURED", "WARNING: No webhook URL configured!">>
    ELSE <<"Webhook URL: ">> \o mask_url(u) \o <<"Testing webhook connection...">>
         \o (IF resp = "200" THEN <<"SUCCESS: Test message sent to Slack!">>
             ELSE IF resp = "500" THEN <<"FAILED: Slack returned status ", "500">>
             ELSE <<"FAILED: ">> \o MaskWebhook(ExceptionText(u, resp), "[MASKED]"))

\* What the one-shot notifier's check command prints from its "Webhook URL:"
\* line on.
CliCheckOutput(u) ==
    IF ~u.set THEN <<"Webhook URL: ", "NOT CONFIGURED", "To configure:">>
    ELSE <<"Webhook URL: ">> \o mask_url(u) \o <<"Configuration OK!">>

\* The output of a command.
OutputOf(op, u, allowed, resp) ==
    IF op = "send" THEN SendLog(u, allowed, resp)
    ELSE IF op = "check_config" THEN CheckConfigOutput(u, resp)
    ELSE CliCheckOutput(u)

----------------------------------------------------------------------------
(* IssueFileHandler and the observer                                       *)

\* Mutant of Debounced: a trigger arriving exactly debounce_seconds after the
\* last scan's start is dropped too.
DebouncedAtInterval(t, last) == t - last <= debounce_seconds

\* if now - self.last_process_time < self.debounce_seconds: return
Debounced(t, last) == t - last < debounce_seconds

\* Mutant of CanDispatch: an event is handed to on_modified while an earlier
\* call is still running.
CanDispatchAlways(inflight) == TRUE

\* The observer (one Observer, one handler: run_daemon) delivers its events
\* from one thread: on_modified is called for the next event when the call for
\* the one before, process_changes included, has returned.
CanDispatch(inflight) == inflight = <<>>

----------------------------------------------------------------------------
(* Actions                                                                 *)

\* The clock advances.
Tick ==
    /\ now < MaxClock
    /\ now' = now + 1
    /\ UNCHANGED <<requests, calls, watcherVars, configVars, sanVars, hostVars, daemonVars,
                   setupVars>>

\* A direct call of RateLimiter.allow().
allow ==
    /\ Len(calls) < MaxCalls
    /\ \E a \in {Allow(requests, now)} :
       /\ requests' = a.requests
       /\ calls' = Append(calls, [t |-> now, ok |-> a.ok])
    /\ UNCHANGED <<now, watcherVars, configVars, sanVars, hostVars, daemonVars, setupVars>>

\* A direct call of RateLimiter.get_stats(): it prunes like allow().
get_stats ==
    /\ requests' = PruneOld(requests, now)
    /\ UNCHANGED <<now, calls, watcherVars, configVars, sanVars, hostVars, daemonVars, setupVars>>

\* run_daemon up to observer.start(): load the state file, take the baseline
\* of the issues file, save.
run_daemon(lines, ok) ==
    /\ ~running
    /\ \E b \in {Baseline(parse_issues_jsonl(lines, ok), 1,
                           Load(state_file).previous_issues,
                           Load(state_file).assignee_issues)} :
           /\ previous_issues' = b.previous_issues
           /\ assignee_issues' = b.assignee_issues
           /\ state_file' = Save(b.previous_issues, b.assignee_issues)
           /\ events' = b.events
    /\ running' = TRUE
    /\ requests' = <<>>
    /\ store' = lines
    /\ read_ok' = ok
    /\ pc' = "run_daemon"
    /\ last_process_time' = 0
    /\ pid_file' = TRUE
    /\ queue' = 0
    /\ scans' = <<>>
    /\ stopping' = FALSE
    /\ state_mode' = Mode0600
    /\ transport' = <<>>
    /\ UNCHANGED <<now, calls, file, configVars, sanVars, managerVars, output, setupVars>>

\* The number of requests.post calls a scan of lines makes now.
PostsOf(lines, ok) ==
    LET AnyResp == [n \in 1..(2 * Cardinality(Ids)) |-> "200"]
        r == ProcessChanges(parse_issues_jsonl(lines, ok), previous_issues,
                            assignee_issues, requests, now, AnyResp)
    IN  Cardinality({i \in 1..Len(r.events) : r.events[i].posted})

\* The body of process_changes: one scan of the issues file, holding lines, at
\* clock reading now; resp[n] is the transport's answer to the n-th post.
Scan(lines, ok, resp) ==
    /\ \E r \in {ProcessChanges(parse_issues_jsonl(lines, ok), previous_issues,
                                 assignee_issues, requests, now, resp)} :
           /\ previous_issues' = r.previous_issues
           /\ assignee_issues' = r.assignee_issues
           /\ events' = r.events
           /\ requests' = r.requests
           /\ transport' = Transport(transport, r.events, now)
           /\ state_file' = Save(r.previous_issues, r.assignee_issues)
    /\ store' = lines
    /\ read_ok' = ok
    /\ pc' = "process_changes"
    /\ state_mode' = Mode0600
    /\ UNCHANGED <<now, calls, running, configVars, sanVars, managerVars, output, daemonVars,
                   setupVars>>

\* IssueFileHandler.process_changes, as on_modified calls it once the debounce
\* interval has passed.
process_changes(lines, ok) ==
    /\ running
    /\ \E resp \in [1..PostsOf(lines, ok) -> Responses] : Scan(lines, ok, resp)
    /\ UNCHANGED last_process_time

\* IssueFileHandler.on_modified for a FileModifiedEvent of the issues file.
on_modified(lines, ok) ==
    /\ running
    /\ IF Debounced(now, last_process_time)
       THEN UNCHANGED vars
       ELSE /\ last_process_time' = now
            /\ \E resp \in [1..PostsOf(lines, ok) -> Responses] : Scan(lines, ok, resp)

\* signal_handler, and the finally block of run_daemon, with no scan under way:
\* the observer stops, the PID file goes, the process exits; what it held in
\* memory is gone.
shutdown ==
    /\ running
    /\ scans = <<>>
    /\ ~stopping
    /\ running' = FALSE
    /\ previous_issues' = EmptyMap
    /\ assignee_issues' = EmptyMap
    /\ requests' = <<>>
    /\ events' = <<>>
    /\ store' = <<>>
    /\ read_ok' = TRUE
    /\ pc' = "shutdown"
    /\ last_process_time' = 0
    /\ pid_file' = FALSE
    /\ queue' = 0
    /\ UNCHANGED <<now, calls, state_file, file, scans, stopping, configVars, sanVars, hostVars,
                   setupVars>>

\* cli.notify_review: the one-shot notifier, a process of its own. It builds
\* SlackConfig(webhook_url=...) and a new SlackNotifier, whose rate limiter is
\* empty, and sends; resp is the transport's answer.
notify_review(resp) ==
    /\ \E r \in {Dispatch([ai |-> EmptyMap, events |-> <<>>, requests |-> <<>>,
                            posts |-> 0, notify_on |-> AllOn],
                           Event("review_request", [id |-> None, status |-> None],
                                 None, None, <<>>, FALSE, {}),
                           TRUE, now, <<resp>>)} :
           events' = r.events
    /\ pc' = "notify_review"
    /\ UNCHANGED <<now, requests, calls, running, store, read_ok, previous_issues,
                   assignee_issues, state_file, last_process_time, configVars, sanVars, hostVars,
                   daemonVars, setupVars>>

\* A caller (SlackNotifier.send, notify_*, the one-shot notifier) runs
\* sanitize_for_slack on the text and limit it holds.
sanitize ==
    /\ ~san.called
    /\ san' = [san EXCEPT !.called = TRUE,
                          !.result = sanitize_for_slack(san.text, san.max_length)]
    /\ UNCHANGED <<rlVars, watcherVars, configVars, daemonVars, setupVars, hostVars, call>>

\* SlackConfig.load, as main() calls it for the daemon.
load(chmod_ok) ==
    /\ ~running
    /\ secrets_file' = enforce_file_permissions(secrets_file, chmod_ok)
    /\ webhook_url' = SlackConfigLoad(secrets_file, config_file, environ)
    /\ outcome' = [op |-> "load", resp |-> None, ok |-> TRUE, exit |-> 0,
                   url |-> SlackConfigLoad(secrets_file, config_file, environ)]
    /\ UNCHANGED <<rlVars, watcherVars, notify_on, sanVars, hostVars, daemonVars, config_file,
                   environ>>

\* get_webhook_url, as the one-shot notifier's commands call it.
get_webhook_url ==
    /\ outcome' = [op |-> "get_webhook_url", resp |-> None, ok |-> TRUE, exit |-> 0,
                   url |-> GetWebhookUrl(secrets_file, config_file, environ)]
    /\ UNCHANGED <<rlVars, watcherVars, configVars, sanVars, hostVars, daemonVars, secrets_file,
                   config_file, environ>>

\* The daemon's --check: check_config, then sys.exit(0 if success else 1).
\* SlackConfig.load runs only past the first return.
check_config(resp, chmod_ok) ==
    /\ secrets_file' =
           IF ~config_file.exists /\ ~secrets_file.exists THEN secrets_file
           ELSE enforce_file_permissions(secrets_file, chmod_ok)
    /\ \E ok \in {CheckConfig(secrets_file, config_file, environ, resp)} :
           outcome' = [op |-> "check_config", resp |-> resp, ok |-> ok,
                       exit |-> IF ok THEN 0 ELSE 1, url |-> ""]
    /\ UNCHANGED <<rlVars, watcherVars, configVars, sanVars, hostVars, daemonVars, config_file,
                   environ>>

\* The one-shot notifier's check command; resp is what the endpoint would
\* answer to a post (the command makes none).
cli_check(resp) ==
    /\ outcome' = [op |-> "cli_check", resp |-> resp, ok |-> TRUE,
                   exit |-> CliCheck(secrets_file, config_file, environ), url |-> ""]
    /\ UNCHANGED <<rlVars, watcherVars, configVars, sanVars, hostVars, daemonVars, secrets_file,
                   config_file, environ>>

\* init_secrets_file (--init-secret).
init_secrets_file(chmod_ok, create_ok) ==
    /\ \E r \in {InitSecretsFile(secrets_file, chmod_ok, create_ok)} :
           /\ secrets_file' = r.secrets
           /\ outcome' = [op |-> "init_secrets_file", resp |-> None, ok |-> r.ok,
                          exit |-> IF r.ok THEN 0 ELSE 1, url |-> ""]
    /\ UNCHANGED <<rlVars, watcherVars, configVars, sanVars, hostVars, daemonVars, config_file,
                   environ>>

\* SecretsManager.write_secret(name, value)
write_secret(name, value) ==
    /\ \E r \in {WriteSecret(secrets_dir, secret, umask, name, value)} :
           /\ secrets_dir' = r.dir
           /\ secret' = r.files
           /\ returned' = [op |-> "write_secret", name |-> name, value |-> value,
                           raised |-> r.raised, isNone |-> FALSE, text |-> <<>>,
                           ok |-> FALSE]
    /\ UNCHANGED <<rlVars, watcherVars, configVars, sanVars, daemonVars, setupVars, umask,
                   state_mode, output, transport>>

\* SecretsManager.read_secret(name); reading a file without the owner's read
\* bit raises.
read_secret(name) ==
    /\ returned' = [op |-> "read_secret", name |-> name, value |-> <<>>,
                    raised |-> secret[name].exists /\ "ur" \notin secret[name].mode,
                    isNone |-> ReadSecret(secret, name).isNone,
                    text |-> ReadSecret(secret, name).text, ok |-> FALSE]
    /\ UNCHANGED <<rlVars, watcherVars, configVars, sanVars, daemonVars, setupVars, umask,
                   secrets_dir, secret, state_mode, output, transport>>

\* SecretsManager.validate_permissions(name)
validate_permissions(name) ==
    /\ returned' = [op |-> "validate_permissions", name |-> name, value |-> <<>>,
                    raised |-> FALSE, isNone |-> FALSE, text |-> <<>>,
                    ok |-> ValidatePermissions(secret, name)]
    /\ UNCHANGED <<rlVars, watcherVars, configVars, sanVars, daemonVars, setupVars, umask,
                   secrets_dir, secret, state_mode, output, transport>>

\* SlackNotifier.send() of a notifier configured with the endpoint u: what it
\* logs.
log_send(u, resp) ==
    /\ \E a \in {IF u.set THEN Allow(requests, now)
                 ELSE [ok |-> FALSE, requests |-> requests]} :
           /\ requests' = a.requests
           /\ output' = [op |-> "send", url |-> u, allowed |-> a.ok, resp |-> resp,
                         lines |-> SendLog(u, a.ok, resp)]
           /\ transport' = IF u.set /\ a.ok THEN Append(Recent(transport, now), now)
                           ELSE transport
    /\ UNCHANGED <<now, calls, watcherVars, configVars, sanVars, daemonVars, setupVars,
                   managerVars, state_mode>>

\* check_config of a configuration whose endpoint is u: what it prints.
print_check_config(u, resp) ==
    /\ output' = [op |-> "check_config", url |-> u, allowed |-> TRUE, resp |-> resp,
                  lines |-> CheckConfigOutput(u, resp)]
    /\ UNCHANGED <<rlVars, watcherVars, configVars, sanVars, daemonVars, setupVars,
                   managerVars, state_mode, transport>>

\* The one-shot notifier's check command, get_webhook_url() being u: what it
\* prints.
print_cli_check(u) ==
    /\ output' = [op |-> "cli_check", url |-> u, allowed |-> TRUE, resp |-> "200",
                  lines |-> CliCheckOutput(u)]
    /\ UNCHANGED <<rlVars, watcherVars, configVars, sanVars, daemonVars, setupVars,
                   managerVars, state_mode, transport>>

\* Issue.get_assigned_agent() on the issue that call holds: its assignee field
\* and the texts of its comments, oldest first.
assigned_agent ==
    /\ call.fn = "get_assigned_agent"
    /\ ~call.called
    /\ call' = [call EXCEPT
                   !.called = TRUE,
                   !.result = get_assigned_agent(
                       Issue("X", "open", call.args.assignee,
                             [i \in 1..Len(call.args.comments) |->
                                  Directive(call.args.comments[i])]))]
    /\ UNCHANGED <<rlVars, watcherVars, configVars, daemonVars, setupVars, hostVars, san>>

\* notify_in_progress and cli.notify_review on the fields that call holds, for
\* a message that is delivered.
payload_in_progress ==
    /\ call.fn = "notify_in_progress"
    /\ ~call.called
    /\ call' = [call EXCEPT
                   !.called = TRUE,
                   !.result = NotifyInProgressPayload(call.args.id, call.args.text,
                                                      call.args.agent)]
    /\ UNCHANGED <<rlVars, watcherVars, configVars, daemonVars, setupVars, hostVars, san>>

payload_review ==
    /\ call.fn = "notify_review"
    /\ ~call.called
    /\ call' = [call EXCEPT
                   !.called = TRUE,
                   !.result = NotifyReviewPayload(call.args.agent, call.args.id,
                                                  call.args.text)]
    /\ UNCHANGED <<rlVars, watcherVars, configVars, daemonVars, setupVars, hostVars, san>>

\* The issue tracker appends records to the issues file, which holds at most
\* MaxLines lines, and the daemon scans the file.
append(records) ==
    /\ Len(store) + Len(records) <= MaxLines
    /\ process_changes(store \o records, TRUE)

----------------------------------------------------------------------------
(* The daemon step by step: the tracker writes the file, the observer       *)
(* queues and delivers events, a scan proceeds from its parse through the   *)
(* item loop to the write of the state file, signals arrive.                *)

\* The tracker rewrites issues.jsonl; a running observer queues a
\* FileModifiedEvent for it.
write_issues(lines) ==
    /\ lines # file
    /\ file' = lines
    /\ IF running /\ ~stopping
       THEN queue < MaxQueue /\ queue' = queue + 1
       ELSE queue' = queue
    /\ UNCHANGED <<rlVars, watcherVars, configVars, sanVars, hostVars, scans, pid_file, stopping,
                   setupVars>>

\* The observer's thread hands the next event to on_modified, which drops it
\* inside the debounce interval and otherwise enters process_changes, whose
\* first statement parses the file.
dispatch_event ==
    /\ running /\ ~stopping
    /\ queue > 0
    /\ CanDispatch(scans)
    /\ queue' = queue - 1
    /\ pc' = "on_modified"
    /\ events' = <<>>
    /\ IF Debounced(now, last_process_time)
       THEN UNCHANGED <<last_process_time, scans, store, read_ok>>
       ELSE /\ last_process_time' = now
            /\ scans' = Append(scans, "parsed")
            /\ store' = file
            /\ read_ok' = TRUE
    /\ UNCHANGED <<rlVars, running, previous_issues, assignee_issues, state_file,
                   configVars, sanVars, hostVars, file, pid_file, stopping, setupVars>>

\* process_changes from its loop over the parsed issues to the replacement of
\* previous_issues: the notifications go out and the state changes in memory.
diff_issues ==
    /\ \E i \in 1..Len(scans) :
           /\ scans[i] = "parsed"
           /\ scans' = [scans EXCEPT ![i] = "diffed"]
    /\ \E resp \in [1..PostsOf(store, read_ok) -> Responses] :
       \E r \in {ProcessChanges(parse_issues_jsonl(store, read_ok), previous_issues,
                                 assignee_issues, requests, now, resp)} :
           /\ previous_issues' = r.previous_issues
           /\ assignee_issues' = r.assignee_issues
           /\ events' = r.events
           /\ requests' = r.requests
           /\ transport' = Transport(transport, r.events, now)
    /\ UNCHANGED <<now, calls, running, store, read_ok, state_file, pc,
                   last_process_time, configVars, sanVars, managerVars, state_mode, output,
                   file, queue, pid_file, stopping, setupVars>>

\* NotifierState.save: open(self.state_path, "w") truncates the state file,
\* or creates it with the mode the umask leaves.
save_open ==
    /\ \E i \in 1..Len(scans) :
           /\ scans[i] = "diffed"
           /\ scans' = [scans EXCEPT ![i] = "saving"]
    /\ state_file' = Torn
    /\ state_mode' = IF state_file.exists THEN state_mode ELSE CreateMode(umask)
    /\ UNCHANGED <<rlVars, running, store, read_ok, previous_issues, assignee_issues,
                   events, pc, last_process_time, configVars, sanVars, managerVars, output, transport, file,
                   queue, pid_file, stopping, setupVars>>

\* NotifierState.save: json.dump has written the state and the with block has
\* closed the file.
save_write ==
    /\ \E i \in 1..Len(scans) :
           /\ scans[i] = "saving"
           /\ scans' = [scans EXCEPT ![i] = "written"]
    /\ state_file' = Save(previous_issues, assignee_issues)
    /\ UNCHANGED <<rlVars, running, store, read_ok, previous_issues, assignee_issues,
                   events, pc, last_process_time, configVars, sanVars, hostVars, file,
                   queue, pid_file, stopping, setupVars>>

\* NotifierState.save: enforce_file_permissions(self.state_path), whose chmod
\* can fail (chmod_ok is FALSE when os.chmod raises OSError); save returns, and
\* with it process_changes and on_modified, or the baseline of run_daemon.
save_enforce(chmod_ok) ==
    /\ \E i \in 1..Len(scans) :
           /\ scans[i] = "written"
           /\ scans' = SubSeq(scans, 1, i - 1) \o SubSeq(scans, i + 1, Len(scans))
    /\ state_mode' = IF state_mode # Mode0600 /\ chmod_ok THEN Mode0600 ELSE state_mode
    /\ pc' = IF running THEN "process_changes" ELSE pc
    /\ UNCHANGED <<rlVars, running, store, read_ok, previous_issues, assignee_issues,
                   state_file, events, last_process_time, configVars, sanVars,
                   managerVars, output, transport, file, queue, pid_file, stopping,
                   setupVars>>

\* run_daemon up to its state.save(): NotifierState(STATE_FILE) loads the
\* state file, and the issues of the file that the state does not know are
\* added without notification.
baseline ==
    /\ ~running
    /\ pc # "baseline"
    /\ \E b \in {Baseline(parse_issues_jsonl(file, TRUE), 1,
                           Load(state_file).previous_issues,
                           Load(state_file).assignee_issues)} :
           /\ previous_issues' = b.previous_issues
           /\ assignee_issues' = b.assignee_issues
           /\ events' = b.events
    /\ requests' = <<>>
    /\ store' = file
    /\ read_ok' = TRUE
    /\ pc' = "baseline"
    /\ last_process_time' = 0
    /\ scans' = <<"diffed">>
    /\ transport' = <<>>
    /\ UNCHANGED <<now, calls, running, state_file, configVars, sanVars, managerVars,
                   state_mode, output, file,
                   queue, pid_file, stopping, setupVars>>

\* run_daemon after its state.save(): the observer is scheduled, the signal
\* handlers installed, the PID file written and the observer started.
start_observer ==
    /\ ~running
    /\ pc = "baseline"
    /\ scans = <<>>
    /\ running' = TRUE
    /\ pc' = "run_daemon"
    /\ pid_file' = TRUE
    /\ queue' = 0
    /\ stopping' = FALSE
    /\ UNCHANGED <<rlVars, store, read_ok, previous_issues, assignee_issues, state_file,
                   events, last_process_time, configVars, sanVars, hostVars, file, scans,
                   setupVars>>

\* The process is gone: its memory, its threads and the observer's queue with it.
ProcessEnds ==
    /\ running' = FALSE
    /\ previous_issues' = EmptyMap
    /\ assignee_issues' = EmptyMap
    /\ requests' = <<>>
    /\ events' = <<>>
    /\ store' = <<>>
    /\ read_ok' = TRUE
    /\ last_process_time' = 0
    /\ scans' = <<>>
    /\ queue' = 0
    /\ stopping' = FALSE

\* SIGTERM or SIGINT: signal_handler stops the observer, removes the PID file
\* and raises SystemExit in the main thread. From the sleep loop that leads
\* into the finally block, which waits in observer.join(); raised while the
\* main thread is already there, it leaves join, and the process exits with
\* the observer's daemon thread wherever that is.
signal ==
    /\ running
    /\ pid_file' = FALSE
    /\ IF ~stopping
       THEN /\ stopping' = TRUE
            /\ UNCHANGED <<rlVars, watcherVars, scans, queue>>
       ELSE /\ ProcessEnds
            /\ pc' = "shutdown"
            /\ UNCHANGED <<now, calls, state_file>>
    /\ UNCHANGED <<configVars, sanVars, hostVars, file, setupVars>>

\* observer.join() returns once the observer's thread has finished the call
\* it was in; the finally block completes and the process exits.
exit_daemon ==
    /\ running /\ stopping
    /\ scans = <<>>
    /\ ProcessEnds
    /\ pid_file' = FALSE
    /\ pc' = "shutdown"
    /\ UNCHANGED <<now, calls, state_file, configVars, sanVars, hostVars, file, setupVars>>

\* The process is killed (SIGKILL, power loss): no handler runs, the PID file
\* stays.
crash ==
    /\ running /\ ~stopping
    /\ ProcessEnds
    /\ pc' = "crash"
    /\ UNCHANGED <<now, calls, state_file, configVars, sanVars, hostVars, file, pid_file,
                   setupVars>>

----------------------------------------------------------------------------
(* Specifications                                                          *)

\* No sanitizer call is under way.
NoCall == [text |-> <<>>, max_length |-> 0, called |-> FALSE, result |-> <<>>]

\* No configuration command has run; nothing is configured.
NoOutcome == [op |-> "none", resp |-> None, ok |-> TRUE, exit |-> 0, url |-> ""]
InitSetupVars ==
    /\ secrets_file = NoSecrets
    /\ config_file = NoConfig
    /\ environ = [SLACK_WEBHOOK_URL |-> None, HOOK |-> None]
    /\ outcome = NoOutcome

\* No daemon process: no event queued, no scan under way, no PID file; the
\* issues file is empty.
InitDaemonVars ==
    /\ file = <<>>
    /\ queue = 0
    /\ scans = <<>>
    /\ pid_file = FALSE
    /\ stopping = FALSE

\* No SecretsManager call yet; the secrets directory does not exist.
NoReturn == [op |-> "none", name |-> "", value |-> <<>>, raised |-> FALSE,
             isNone |-> FALSE, text |-> <<>>, ok |-> FALSE]
NoFn == [fn |-> "none", args |-> <<>>, called |-> FALSE, result |-> None]
NoOutput == [op |-> "none", url |-> NoUrl, allowed |-> TRUE, resp |-> "200",
             lines |-> <<>>]
InitManagerVars ==
    /\ output = NoOutput
    /\ call = NoFn
    /\ transport = <<>>
    /\ umask = Umask022
    /\ secrets_dir = NoDir
    /\ secret = [n \in Names |-> NoSecret]
    /\ returned = NoReturn

InitWatcher ==
    /\ InitDaemonVars
    /\ state_mode = NoMode
    /\ running = FALSE
    /\ store = <<>>
    /\ read_ok = TRUE
    /\ previous_issues = EmptyMap
    /\ assignee_issues = EmptyMap
    /\ state_file = NoFile
    /\ events = <<>>
    /\ pc = "init"
    /\ last_process_time = 0

\* The rate limiter alone, under direct allow() calls.
InitRL ==
    /\ san = NoCall
    /\ now = 0
    /\ requests = <<>>
    /\ calls = <<>>
    /\ InitWatcher
    /\ InitManagerVars
    /\ InitSetupVars
    /\ webhook_url = ""
    /\ notify_on = AllOn

NextRL == Tick \/ allow \/ get_stats

SpecRL == InitRL /\ [][NextRL]_vars

\* The watcher: triggers pass the debounce test of on_modified, and an endpoint
\* is configured, so that send() goes through the rate limiter to the transport.
\* The clock starts past the first debounce interval (time.time() is far from
\* last_process_time's initial 0).
WatchIssues(id) == {Issue(id, s, "A", <<>>) : s \in {"open", "in_progress", "closed"}}
WatchStores ==
    {<<>>}
    \cup {<<a>> : a \in WatchIssues("X") \cup WatchIssues("Y")}
    \cup {<<a, b>> : a \in WatchIssues("X"), b \in WatchIssues("Y")}

Init ==
    /\ san = NoCall
    /\ now = debounce_seconds
    /\ requests = <<>>
    /\ calls = <<>>
    /\ InitWatcher
    /\ InitManagerVars
    /\ InitSetupVars
    /\ webhook_url = "https://hooks.slack.com/services/T/B/X"
    /\ notify_on = AllOn

Next ==
    \/ Tick
    \/ \E lines \in WatchStores : run_daemon(lines, TRUE)
    \/ \E lines \in WatchStores : on_modified(lines, TRUE)
    \/ on_modified(store, FALSE)
    \/ shutdown

Spec == Init /\ [][Next]_vars

\* The notification policy: the watcher and the one-shot notifier under every
\* setting of the five notify_on switches, with an endpoint configured.
Policies == [DOMAIN AllOn -> BOOLEAN]
PolicyStores == {<<>>} \cup {<<a>> : a \in WatchIssues("X")}

InitPolicy ==
    /\ san = NoCall
    /\ now = debounce_seconds
    /\ requests = <<>>
    /\ calls = <<>>
    /\ InitWatcher
    /\ InitManagerVars
    /\ InitSetupVars
    /\ webhook_url = "https://hooks.slack.com/services/T/B/X"
    /\ notify_on \in Policies

NextPolicy ==
    \/ Tick
    \/ \E lines \in PolicyStores : run_daemon(lines, TRUE)
    \/ \E lines \in PolicyStores : process_changes(lines, TRUE)
    \/ \E resp \in Responses : notify_review(resp)

SpecPolicy == InitPolicy /\ [][NextPolicy]_vars

\* The change detection: the daemon with no endpoint configured, so that every
\* notify_* call ends in send()'s first return. process_changes runs whenever
\* on_modified lets a trigger through, which the clock always allows again.
\* The daemon starts on an empty or missing issues file, with whatever state an
\* earlier run persisted; issues enter through scans. (Spec starts the daemon on
\* non-empty files.)
AgentCfgs == {<<None, <<>>>>, <<"A", <<>>>>, <<"B", <<>>>>, <<None, <<"A">>>>}
XIssues == {Issue("X", s, c[1], c[2]) : s \in Statuses, c \in AgentCfgs}
YIssues == {Issue("Y", s, "A", <<>>) : s \in {"open", "in_progress", "closed"}}
DiffStores ==
    {<<>>}
    \cup {<<a>> : a \in XIssues \cup YIssues}
    \cup {<<a, b>> : a \in XIssues, b \in YIssues}
    \cup {<<b, a>> : a \in XIssues, b \in YIssues}

InitDiff ==
    /\ san = NoCall
    /\ now = 0
    /\ requests = <<>>
    /\ calls = <<>>
    /\ InitWatcher
    /\ InitManagerVars
    /\ InitSetupVars
    /\ webhook_url = ""
    /\ notify_on = AllOn

NextDiff ==
    \/ run_daemon(<<>>, TRUE)
    \/ run_daemon(<<>>, FALSE)
    \/ \E lines \in DiffStores : process_changes(lines, TRUE)
    \/ process_changes(store, FALSE)
    \/ shutdown

SpecDiff == InitDiff /\ [][NextDiff]_vars

\* The sanitizer alone: a caller holds any text over '&', '<', '>', BEL and 'a'
\* of at most MaxTextLen characters, a text that is already an entity, or the
\* whitespace controls, with any max_length up to MaxLimit.
Chars == {38, 60, 62, 7, 97}
Texts ==
    UNION {[1..k -> Chars] : k \in 0..MaxTextLen}
    \cup {AmpEntity, LtEntity, GtEntity, <<9, 10, 13>>}

InitSan ==
    /\ san \in [text : Texts, max_length : 0..MaxLimit, called : {FALSE},
                 result : {<<>>}]
    /\ now = 0
    /\ requests = <<>>
    /\ calls = <<>>
    /\ InitWatcher
    /\ InitManagerVars
    /\ InitSetupVars
    /\ webhook_url = ""
    /\ notify_on = AllOn

NextSan == sanitize

SpecSan == InitSan /\ [][NextSan]_vars

\* The change detection on files with malformed lines: up to MaxLines lines,
\* each an issue, a blank line, a line of invalid JSON or a line of JSON that
\* is no object. No endpoint is configured.
FileLines ==
    {Issue("X", "open", "A", <<>>), Issue("X", "closed", "A", <<>>),
     Issue("Y", "open", "A", <<>>), BlankLine, BadJson, NotObject}
MalformedStores == UNION {[1..k -> FileLines] : k \in 0..MaxLines}

NextMalformed ==
    \/ run_daemon(<<>>, TRUE)
    \/ \E lines \in MalformedStores : process_changes(lines, TRUE)
    \/ shutdown

SpecMalformed == InitDiff /\ [][NextMalformed]_vars

\* The daemon step by step, with no endpoint configured: the tracker writes
\* any file of at most one issue, at any moment. The clock starts past the
\* debounce interval (time.time() is seconds since 1970, last_process_time
\* starts at 0), so that the first trigger is never inside it.
InitDaemon ==
    /\ san = NoCall
    /\ now = debounce_seconds
    /\ requests = <<>>
    /\ calls = <<>>
    /\ InitWatcher
    /\ InitManagerVars
    /\ InitSetupVars
    /\ webhook_url = ""
    /\ notify_on = AllOn

NextDaemon ==
    \/ Tick
    \/ \E lines \in PolicyStores : write_issues(lines)
    \/ run_daemon(file, TRUE)
    \/ dispatch_event
    \/ diff_issues
    \/ save_open
    \/ save_write
    \/ \E chmod_ok \in BOOLEAN : save_enforce(chmod_ok)
    \/ signal
    \/ exit_daemon
    \/ crash

SpecDaemon == InitDaemon /\ [][NextDaemon]_vars

\* The daemon left alone: it is started once and neither signalled nor killed,
\* and the tracker takes one issue through its life (created open, then in
\* progress, then closed), so that the file changes finitely often. The
\* process and the observer's thread keep running: a step of theirs that is
\* possible is eventually taken.
NextVersion(f) ==
    IF f = <<>> THEN {<<Issue("X", "open", "A", <<>>)>>}
    ELSE IF f[1].status = "open" THEN {<<Issue("X", "in_progress", "A", <<>>)>>}
    ELSE IF f[1].status = "in_progress" THEN {<<Issue("X", "closed", "A", <<>>)>>}
    ELSE {}

NextLive ==
    \/ Tick
    \/ \E lines \in NextVersion(file) : write_issues(lines)
    \/ run_daemon(file, TRUE)
    \/ dispatch_event
    \/ diff_issues
    \/ save_open
    \/ save_write
    \/ \E chmod_ok \in BOOLEAN : save_enforce(chmod_ok)

SpecLive ==
    /\ InitDaemon
    /\ [][NextLive]_vars
    /\ WF_vars(run_daemon(file, TRUE))
    /\ WF_vars(dispatch_event)
    /\ WF_vars(diff_issues)
    /\ WF_vars(save_open)
    /\ WF_vars(save_write)
    /\ WF_vars(\E chmod_ok \in BOOLEAN : save_enforce(chmod_ok))
    /\ WF_vars(Tick)

\* The daemon step by step from its start, save() included, under either
\* umask: a first start without a state file, scans, and restarts after the
\* process was killed.
InitSave ==
    /\ san = NoCall
    /\ now = debounce_seconds
    /\ requests = <<>>
    /\ calls = <<>>
    /\ InitDaemonVars
    /\ state_mode = NoMode
    /\ running = FALSE
    /\ store = <<>>
    /\ read_ok = TRUE
    /\ previous_issues = EmptyMap
    /\ assignee_issues = EmptyMap
    /\ state_file = NoFile
    /\ events = <<>>
    /\ pc = "init"
    /\ last_process_time = 0
    /\ umask \in Umasks
    /\ secrets_dir = NoDir
    /\ secret = [n \in Names |-> NoSecret]
    /\ returned = NoReturn
    /\ output = NoOutput
    /\ call = NoFn
    /\ transport = <<>>
    /\ InitSetupVars
    /\ webhook_url = ""
    /\ notify_on = AllOn

NextSave ==
    \/ Tick
    \/ \E lines \in PolicyStores : write_issues(lines)
    \/ baseline
    \/ start_observer
    \/ dispatch_event
    \/ diff_issues
    \/ save_open
    \/ save_write
    \/ \E chmod_ok \in BOOLEAN : save_enforce(chmod_ok)
    \/ crash

SpecSave == InitSave /\ [][NextSave]_vars

\* get_assigned_agent on issues whose assignee field is absent (null), empty
\* or an agent, with up to MaxComments comments.
CommentTexts ==
    {<<"note">>, <<"@assigned">>, <<"@assigned", "A">>, <<"note", "@assigned", "B">>,
     <<"re@assigned", "C", "@assigned", "A">>, <<"@assigned", "@assigned", "B">>}
InitCallVars ==
    /\ san = NoCall
    /\ now = 0
    /\ requests = <<>>
    /\ calls = <<>>
    /\ InitDaemonVars
    /\ state_mode = NoMode
    /\ running = FALSE
    /\ store = <<>>
    /\ read_ok = TRUE
    /\ previous_issues = EmptyMap
    /\ assignee_issues = EmptyMap
    /\ state_file = NoFile
    /\ events = <<>>
    /\ pc = "init"
    /\ last_process_time = 0
    /\ output = NoOutput
    /\ transport = <<>>
    /\ umask = Umask022
    /\ secrets_dir = NoDir
    /\ secret = [n \in Names |-> NoSecret]
    /\ returned = NoReturn
    /\ InitSetupVars
    /\ webhook_url = ""
    /\ notify_on = AllOn

InitAgent ==
    /\ \E a \in {None, "", "A", "B"} :
       \E cs \in UNION {[1..k -> CommentTexts] : k \in 0..MaxComments} :
           call = [fn |-> "get_assigned_agent", args |-> [assignee |-> a, comments |-> cs],
                   called |-> FALSE, result |-> None]
    /\ InitCallVars

NextAgent == assigned_agent

SpecAgent == InitAgent /\ [][NextAgent]_vars

\* The payloads of notify_in_progress and of cli.notify_review for any title
\* or message over '&', '<' and 'a' of at most MaxTextLen characters, an id
\* with and without '&', and an agent that is absent, plain or holds '>'.
PayloadTexts == UNION {[1..k -> {38, 60, 97}] : k \in 0..MaxTextLen}
PayloadIds == {<<88>>, <<88, 38>>}
PayloadAgents == {<<>>, <<65>>, <<65, 62>>}
InitPayload ==
    /\ \E fn \in {"notify_in_progress", "notify_review"} :
       \E id \in PayloadIds, text \in PayloadTexts, agent \in PayloadAgents :
           call = [fn |-> fn, args |-> [id |-> id, text |-> text, agent |-> agent],
                   called |-> FALSE, result |-> None]
    /\ InitCallVars

NextPayload ==
    \/ payload_in_progress
    \/ payload_review

SpecPayload == InitPayload /\ [][NextPayload]_vars

\* The change detection on a file that only grows: the tracker appends one or
\* two records between two scans, of a new or of a known id; the daemon starts,
\* and restarts, on the file as it stands. No endpoint is configured.
AppendRecords ==
    {<<a>> : a \in WatchIssues("X") \cup {Issue("Y", "open", "A", <<>>)}}
    \cup {<<a, b>> : a, b \in WatchIssues("X")}

NextAppend ==
    \/ run_daemon(store, TRUE)
    \/ \E records \in AppendRecords : append(records)
    \/ shutdown

SpecAppend == InitDiff /\ [][NextAppend]_vars

\* The watcher of Spec with and without an endpoint configured.
InitGate ==
    /\ san = NoCall
    /\ now = debounce_seconds
    /\ requests = <<>>
    /\ calls = <<>>
    /\ InitWatcher
    /\ InitManagerVars
    /\ InitSetupVars
    /\ webhook_url \in {"", "https://hooks.slack.com/services/T/B/X"}
    /\ notify_on = AllOn

NextGate ==
    \/ Tick
    \/ \E lines \in WatchStores : run_daemon(lines, TRUE)
    \/ \E lines \in WatchStores : on_modified(lines, TRUE)
    \/ on_modified(store, FALSE)
    \/ shutdown

SpecGate == InitGate /\ [][NextGate]_vars

\* The commands that log or print, for every endpoint and every answer of the
\* transport.
NextLog ==
    \/ \E u \in LogUrls \cup {NoUrl}, resp \in LogResponses : log_send(u, resp)
    \/ \E u \in LogUrls \cup {NoUrl}, resp \in LogResponses : print_check_config(u, resp)
    \/ \E u \in LogUrls \cup {NoUrl} : print_cli_check(u)

SpecLog == InitDiff /\ [][NextLog]_vars

\* SecretsManager on every prior state of its directory: the directory absent,
\* or there with mode 0700 or 0755, and then each file absent or left by an
\* earlier run with mode 0600, 0644 or 0400.
PriorSecrets == {NoSecret} \cup [exists : {TRUE}, mode : {Mode0400, Mode0600, Mode0644},
                                 text : {<<97>>}]
InitSecrets ==
    /\ umask \in Umasks
    /\ secrets_dir \in {NoDir} \cup [exists : {TRUE}, mode : {Mode0700, Mode0755}]
    /\ secret \in [Names -> PriorSecrets]
    /\ secrets_dir.exists \/ secret = [n \in Names |-> NoSecret]
    /\ returned = NoReturn
    /\ output = NoOutput
    /\ call = NoFn
    /\ transport = <<>>
    /\ san = NoCall
    /\ now = 0
    /\ requests = <<>>
    /\ calls = <<>>
    /\ InitDaemonVars
    /\ state_mode = NoMode
    /\ running = FALSE
    /\ store = <<>>
    /\ read_ok = TRUE
    /\ previous_issues = EmptyMap
    /\ assignee_issues = EmptyMap
    /\ state_file = NoFile
    /\ events = <<>>
    /\ pc = "init"
    /\ last_process_time = 0
    /\ InitSetupVars
    /\ webhook_url = ""
    /\ notify_on = AllOn

NextSecrets ==
    \/ \E value \in Values : write_secret("test_service", value)
    \/ \E name \in Names : read_secret(name)
    \/ \E name \in Names : validate_permissions(name)

SpecSecrets == InitSecrets /\ [][NextSecrets]_vars

\* The configuration commands, on every secrets file, config file and
\* environment of the domains above; the transport answers as it likes, and
\* chmod, mkdir and write_text succeed or raise.
InitSetup ==
    /\ secrets_file \in SecretsFiles
    /\ config_file \in ConfigFiles
    /\ environ \in Environs
    /\ outcome = NoOutcome
    /\ san = NoCall
    /\ now = 0
    /\ requests = <<>>
    /\ calls = <<>>
    /\ InitWatcher
    /\ InitManagerVars
    /\ webhook_url = ""
    /\ notify_on = AllOn

NextSetup ==
    \/ \E chmod_ok \in BOOLEAN : load(chmod_ok)
    \/ get_webhook_url
    \/ \E resp \in Responses, chmod_ok \in BOOLEAN : check_config(resp, chmod_ok)
    \/ \E resp \in Responses : cli_check(resp)
    \/ \E chmod_ok \in BOOLEAN, create_ok \in BOOLEAN : init_secrets_file(chmod_ok, create_ok)

SpecSetup == InitSetup /\ [][NextSetup]_vars

----------------------------------------------------------------------------
(* Claims about the rate limiter (SpecRL)                                  *)

\* The admitted calls up to call i whose age at call i is less than the window.
AdmittedWithin(i) ==
    {j \in 1..i : calls[j].ok /\ calls[i].t - calls[j].t < window_seconds}

\* C1: at the instant of any allow() call, the admitted calls whose age is less
\* than window_seconds, the call itself included, number at most max_requests.
C1_AdmissionBound ==
    \A i \in 1..Len(calls) : Cardinality(AdmittedWithin(i)) <= max_requests

\* C1's case: a call is denied while max_requests admissions are inside the window.
C1_Witness ==
    \E i \in 1..Len(calls) :
        ~calls[i].ok /\ Cardinality(AdmittedWithin(i)) = max_requests

\* The time of the newest admission recorded when call i was made.
NewestBefore(i) ==
    LET admitted == {k \in 1..(i - 1) : calls[k].ok}
    IN  calls[CHOOSE k \in admitted : \A m \in admitted : m <= k].t

\* Call j follows the denied call i, no call was admitted between them before the
\* window had elapsed, and j is one of the first max_requests calls made once it
\* had; Elapsed(age) says when the window has elapsed for an admission of that age.
AfterWindow(i, j, Elapsed(_)) ==
    /\ i < j
    /\ ~calls[i].ok
    /\ Elapsed(calls[j].t - NewestBefore(i))
    /\ \A k \in (i + 1)..(j - 1) :
           calls[k].ok => Elapsed(calls[k].t - NewestBefore(i))
    /\ Cardinality({k \in (i + 1)..(j - 1) : Elapsed(calls[k].t - NewestBefore(i))})
           < max_requests

ElapsedAt(age) == age >= window_seconds
ElapsedPast(age) == age > window_seconds

\* C2 as stated: after a denial, once the window has elapsed since the recorded
\* admissions (their age has reached window_seconds), the next max_requests
\* calls all return true.
C2_Original ==
    \A i, j \in 1..Len(calls) : AfterWindow(i, j, ElapsedAt) => calls[j].ok

\* C2, amended: after a denial, once more than window_seconds have passed since
\* the recorded admissions, the next max_requests calls all return true.
C2_Replenished ==
    \A i, j \in 1..Len(calls) : AfterWindow(i, j, ElapsedPast) => calls[j].ok

\* C2's case: the last of max_requests calls admitted after a denial and the window.
C2_Witness ==
    \E i, j \in 1..Len(calls) :
        /\ AfterWindow(i, j, ElapsedPast)
        /\ calls[j].ok
        /\ Cardinality({k \in (i + 1)..(j - 1) :
                           ElapsedPast(calls[k].t - NewestBefore(i))})
               = max_requests - 1

----------------------------------------------------------------------------
(* Claims about the watcher (Spec)                                         *)

\* The state is the one a scan has just left.
AfterScan == running /\ pc = "process_changes"

\* The issues the most recent scan parsed.
Parsed == parse_issues_jsonl(store, read_ok)

\* A transport that answers every post with 200.
AllOk == [n \in 1..(2 * Cardinality(Ids)) |-> "200"]

\* What process_changes would do if it ran again now on the store as the most
\* recent scan found it.
Rescan == ProcessChanges(Parsed, previous_issues, assignee_issues, requests, now, AllOk)

Dropped(e) == e.outcome = "rate_limited"

\* C3: a notification the rate limiter denies is dropped: send() returned False
\* and made no transport call; the scan that raised it has still put the parsed
\* issues into the snapshot, in memory and on disk; a scan of the unchanged store
\* at any later clock reading raises nothing, so nothing is delivered then; and
\* neither startup nor shutdown posts anything.
C3_DeniedIsDropped ==
    /\ \A i \in 1..Len(events) :
           Dropped(events[i]) => ~events[i].posted /\ ~events[i].result
    /\ (AfterScan /\ \E i \in 1..Len(events) : Dropped(events[i])) =>
           /\ previous_issues = SnapshotOf(Parsed)
           /\ state_file.exists /\ state_file.previous_issues = previous_issues
           /\ Rescan.events = <<>>
    /\ ~AfterScan => \A i \in 1..Len(events) : ~events[i].posted

\* C3's case: a scan has raised a notification that the rate limiter denied,
\* after one that was posted.
C3_Witness ==
    /\ AfterScan
    /\ \E i, j \in 1..Len(events) : Dropped(events[i]) /\ events[j].posted

----------------------------------------------------------------------------
(* Claims about the change detection (SpecDiff)                            *)

\* C4: when process_changes has run, running it again on the unchanged store
\* raises no event and leaves previous_issues, assignee_issues and the state
\* file as the first run left them.
C4_ScanIdempotent ==
    AfterScan =>
        /\ Rescan.events = <<>>
        /\ Rescan.previous_issues = previous_issues
        /\ Rescan.assignee_issues = assignee_issues
        /\ Save(Rescan.previous_issues, Rescan.assignee_issues) = state_file

\* C4's case: the first run has raised events for a store of two issues.
C4_Witness ==
    /\ AfterScan
    /\ Len(Parsed) = 2
    /\ events # <<>>
    /\ Rescan.events = <<>>

\* The step is one run of process_changes.
ScanStep == running /\ pc' = "process_changes" /\ now' = now

\* C5 as stated: a scan that cannot read the issue store raises no event and
\* leaves the snapshot unchanged, in memory and on disk.
C5_ReadFailureKeepsSnapshot ==
    [][(ScanStep /\ ~read_ok') =>
           /\ events' = <<>>
           /\ previous_issues' = previous_issues
           /\ state_file'.previous_issues = state_file.previous_issues]_vars

\* The positions of the events of a kind raised for an issue.
EventsOf(evs, kind, id) ==
    {i \in 1..Len(evs) : evs[i].kind = kind /\ evs[i].id = id}

\* C6: a scan raises, for an issue whose id the previous snapshot lacks, exactly
\* one created notification and no other notification on its behalf, whatever
\* its status; and no created notification for an id the snapshot holds.
C6_FirstObservation ==
    [][ScanStep =>
           \A cur \in {Parsed'} : \A id \in Ids :
               /\ (id \in IdsOf(cur) /\ id \notin DOMAIN previous_issues) =>
                      /\ Cardinality(EventsOf(events', "created", id)) = 1
                      /\ \A i \in 1..Len(events') :
                             events'[i].id = id => events'[i].kind = "created"
               /\ id \in DOMAIN previous_issues =>
                      EventsOf(events', "created", id) = {}]_vars

\* C6's case: an issue first seen as closed, while its agent has nothing open,
\* has raised a created notification and nothing else.
C6_Witness ==
    /\ AfterScan
    /\ \E i \in 1..Len(events) :
           /\ events[i].kind = "created"
           /\ events[i].status = "closed"
           /\ events[i].agent # None
           /\ get_open_issues_for_assignee(assignee_issues, events[i].agent) = {}

\* C7: for an issue in both the previous snapshot and the parse, a scan raises
\* the in_progress notification iff the previous status is not in_progress and
\* the current one is, the closed notification iff the previous status is not
\* closed and the current one is, each at most once, and the snapshot takes the
\* current status in every case.
C7_Classification ==
    [][ScanStep =>
           \A cur \in {Parsed'} : \A id \in DOMAIN previous_issues \cap IdsOf(cur) :
               LET old == previous_issues[id].status
                   new == IssueOf(cur, id).status
                   started == EventsOf(events', "in_progress", id)
                   completed == EventsOf(events', "closed", id)
               IN  /\ (started # {}) <=> (old # "in_progress" /\ new = "in_progress")
                   /\ (completed # {}) <=> (old # "closed" /\ new = "closed")
                   /\ Cardinality(started) <= 1
                   /\ Cardinality(completed) <= 1
                   /\ previous_issues'[id].status = new]_vars

\* C7's case: an issue that was in_progress in the snapshot (the scan before
\* took it there) is found closed, and another has changed between statuses
\* that raise nothing.
C7_Witness ==
    /\ AfterScan
    /\ \E i \in 1..Len(events) :
           events[i].kind = "closed" /\ events[i].old = "in_progress"
    /\ \E id \in DOMAIN previous_issues :
           previous_issues[id].status = "blocked" /\ EventsOf(events, "created", id) = {}

Outstanding == {"open", "in_progress"}

\* Issue id is outstanding in the snapshot and the parse holds it for agent a.
HeldBy(cur, id, a) ==
    /\ id \in IdsOf(cur)
    /\ get_assigned_agent(IssueOf(cur, id)) = a

\* Issue id goes from outstanding in the snapshot to closed in the parse.
Closes(cur, id) ==
    /\ id \in DOMAIN previous_issues
    /\ previous_issues[id].status \in Outstanding
    /\ id \in IdsOf(cur)
    /\ IssueOf(cur, id).status = "closed"

AllComplete(evs) == {i \in 1..Len(evs) : evs[i].kind = "agent_complete"}

\* C8: let agent a's set be {x, y}, both outstanding in the snapshot and both
\* a's in the parse. A scan in which x closes and y does not raises closed for
\* x and no agent_complete. With a's set {y} and x already closed, a scan in
\* which y closes raises closed for y and, right after it, the one
\* agent_complete of the scan, for a, listing x and y. A scan in which both close
\* raises both closed notifications and then exactly one agent_complete, for a.
C8_AssigneeCompleteScenario ==
    [][ScanStep =>
           \A cur \in {Parsed'} : \A a \in Agents : \A x, y \in Ids :
               LET mine == get_open_issues_for_assignee(assignee_issues, a)
                   both == HeldBy(cur, x, a) /\ HeldBy(cur, y, a) /\ x # y
               IN  /\ ( /\ both /\ mine = {x, y}
                        /\ Closes(cur, x)
                        /\ y \in DOMAIN previous_issues
                        /\ previous_issues[y].status \in Outstanding
                        /\ IssueOf(cur, y).status # "closed" ) =>
                          /\ EventsOf(events', "closed", x) # {}
                          /\ AllComplete(events') = {}
                   /\ ( /\ both /\ mine = {y}
                        /\ x \in DOMAIN previous_issues
                        /\ previous_issues[x].status = "closed"
                        /\ IssueOf(cur, x).status = "closed"
                        /\ Closes(cur, y) ) =>
                          \E i \in 1..(Len(events') - 1) :
                              /\ events'[i].kind = "closed" /\ events'[i].id = y
                              /\ AllComplete(events') = {i + 1}
                              /\ events'[i + 1].agent = a
                              /\ Len(events'[i + 1].closed) = 2
                              /\ ListToSet(events'[i + 1].closed) = {x, y}
                   /\ ( /\ both /\ mine = {x, y}
                        /\ Closes(cur, x) /\ Closes(cur, y) ) =>
                          /\ Len(events') = 3
                          /\ events'[1].kind = "closed"
                          /\ events'[2].kind = "closed"
                          /\ {events'[1].id, events'[2].id} = {x, y}
                          /\ AllComplete(events') = {3}
                          /\ events'[3].agent = a]_vars

\* C8's case: the second of an agent's two issues has closed in a scan after
\* the first, and the scan has raised closed and then agent_complete listing both.
C8_Witness ==
    /\ AfterScan
    /\ Len(events) = 2
    /\ events[1].kind = "closed"
    /\ events[2].kind = "agent_complete"
    /\ events[2].tracked
    /\ Len(events[2].closed) = 2
    /\ \E id \in DOMAIN previous_issues : EventsOf(events, "closed", id) = {}

\* What C9 says of the agent_complete notification at position i of a scan's
\* events, the agent's set before the transition aside: it follows the closed
\* notification of an issue of that agent which the snapshot held as not closed,
\* the agent's set is empty once update_assignee_tracking has run for the issue,
\* and it lists, in order, the closed issues of the agent in the parse, at least one.
RaisedOnEmptied(prev, cur, evs, i) ==
    LET e == evs[i]
        ClosedBy(issue) == get_assigned_agent(issue) = e.agent /\ issue.status = "closed"
        closed_by_agent == SelectSeq(cur, ClosedBy)
    IN  /\ i > 1 /\ evs[i - 1].kind = "closed" /\ evs[i - 1].id = e.id
        /\ e.agent # None
        /\ e.id \in DOMAIN prev /\ prev[e.id].status # "closed"
        /\ e.id \in IdsOf(cur)
        /\ IssueOf(cur, e.id).status = "closed"
        /\ get_assigned_agent(IssueOf(cur, e.id)) = e.agent
        /\ e.open_after = {}
        /\ e.closed # <<>>
        /\ e.closed = [k \in 1..Len(closed_by_agent) |-> closed_by_agent[k].id]

\* C9 as stated: agent_complete is raised only for a transition to closed of an
\* issue of the agent, with the agent's set holding the issue before and empty
\* after, and lists the closed issues of the agent in the parse.
C9_Original ==
    [][ScanStep =>
           \A cur \in {Parsed'} : \A i \in AllComplete(events') :
               /\ RaisedOnEmptied(previous_issues, cur, events', i)
               /\ events'[i].tracked]_vars

\* C9, amended: agent_complete is raised only for a transition to closed of an
\* issue of the agent after which the agent's set is empty, whether or not the
\* set held the issue before, and lists the closed issues of the agent in the parse.
C9_RaisedOnlyWhenEmpty ==
    [][ScanStep =>
           \A cur \in {Parsed'} : \A i \in AllComplete(events') :
               RaisedOnEmptied(previous_issues, cur, events', i)]_vars

\* C9's case: agent_complete has been raised for an issue the agent's set did
\* not hold before the transition.
C9_Witness ==
    /\ AfterScan
    /\ \E i \in AllComplete(events) : ~events[i].tracked /\ events[i].open_after = {}

\* C10 as stated: once the daemon is past its baseline, each issue id is in at
\* most one agent's set.
C10_Exclusive ==
    running =>
        \A id \in Ids :
            Cardinality({a \in DOMAIN assignee_issues : id \in assignee_issues[a]}) <= 1

\* C11 as stated: after a scan that finds an issue's assignee changed from the
\* snapshot's, the issue's id is not in the old assignee's set, and it is in the
\* new assignee's set iff its status is open or in_progress.
C11_Reconciled ==
    [][ScanStep =>
           \A cur \in {Parsed'} : \A id \in DOMAIN previous_issues \cap IdsOf(cur) :
               LET old == previous_issues[id].assignee
                   new == IssueOf(cur, id).assignee
               IN  old # new =>
                       /\ old # None =>
                              id \notin get_open_issues_for_assignee(assignee_issues', old)
                       /\ new # None =>
                              (id \in get_open_issues_for_assignee(assignee_issues', new)
                                  <=> IssueOf(cur, id).status \in Outstanding)]_vars

\* C12 as stated: after a scan, every id in an agent's set is the id of an issue
\* the snapshot holds as open or in_progress.
C12_OnlyOutstanding ==
    AfterScan =>
        \A a \in DOMAIN assignee_issues : \A id \in assignee_issues[a] :
            /\ id \in DOMAIN previous_issues
            /\ previous_issues[id].status \in Outstanding

\* The index recomputed from snapshot records: per assignee, the ids of the
\* records with that assignee and status open or in_progress.
Recomputed(prev) ==
    LET held(a) == {id \in DOMAIN prev :
                       prev[id].assignee = a /\ prev[id].status \in Outstanding}
        agents == {prev[id].assignee : id \in DOMAIN prev} \ {None}
    IN  [a \in {b \in agents : held(b) # {}} |-> held(a)]

\* An index without its empty sets.
NonEmptySets(ai) == [a \in {b \in DOMAIN ai : ai[b] # {}} |-> ai[a]]

\* C13 as stated: once the daemon is past its baseline, assignee_issues, empty
\* sets aside, is the index recomputed from previous_issues, in memory and as
\* the state file gives it back.
C13_Derivable ==
    running =>
        /\ NonEmptySets(assignee_issues) = Recomputed(previous_issues)
        /\ NonEmptySets(Load(state_file).assignee_issues)
               = Recomputed(Load(state_file).previous_issues)

----------------------------------------------------------------------------
(* Claims about startup and the snapshot (Spec)                            *)

\* The state is the one run_daemon's initial load has just left.
AfterBaseline == running /\ pc = "run_daemon"

\* The (id, status, assignee, title) of a parsed issue.
Projection(issue) ==
    [id |-> issue.id, status |-> issue.status, assignee |-> issue.assignee,
     title |-> issue.title]

\* C14: after a scan, the keys of previous_issues are exactly the ids of the
\* parse and each record is the (id, status, assignee, title) of the parsed
\* issue, in memory and in the state file; after the startup baseline every
\* parsed issue has a record.
C14_SnapshotIsProjection ==
    /\ AfterScan =>
           /\ DOMAIN previous_issues = IdsOf(Parsed)
           /\ \A id \in IdsOf(Parsed) :
                  previous_issues[id] = Projection(IssueOf(Parsed, id))
           /\ Load(state_file).previous_issues = previous_issues
    /\ AfterBaseline => IdsOf(Parsed) \subseteq DOMAIN previous_issues

\* C14's case: a scan has parsed a store that lacks an issue the scan before
\* knew (its id is still in an agent's set), and the snapshot holds only the
\* issue parsed.
C14_Witness ==
    /\ AfterScan
    /\ Len(Parsed) = 1
    /\ \E a \in DOMAIN assignee_issues :
           assignee_issues[a] \ DOMAIN previous_issues # {}

\* The step is run_daemon's startup.
StartStep == ~running /\ running'

\* C15: run_daemon's initial load makes no notify_* call and no transport
\* call, whatever the store and the persisted state, and gives every parsed
\* issue that had no record its record and its place in the index: in its
\* agent's set if it is open or in_progress, out of it if it is closed.
C15_BaselineSilent ==
    [][StartStep =>
           /\ events' = <<>>
           /\ requests' = <<>>
           /\ \A cur \in {Parsed'} :
                  \A id \in IdsOf(cur) \ DOMAIN Load(state_file).previous_issues :
                      LET issue == IssueOf(cur, id)
                          mine == get_open_issues_for_assignee(
                                      assignee_issues', get_assigned_agent(issue))
                      IN  /\ id \in DOMAIN previous_issues'
                          /\ previous_issues'[id] = Projection(issue)
                          /\ (get_assigned_agent(issue) # None
                                  /\ issue.status \in Outstanding) => id \in mine
                          /\ issue.status = "closed" => id \notin mine]_vars

\* C15's case: the daemon has started on a store of two issues with state
\* persisted by an earlier run: one issue kept the record persisted for it, the
\* other had none and is now in the snapshot and in its agent's set.
C15_Witness ==
    /\ AfterBaseline
    /\ events = <<>>
    /\ \E x, y \in IdsOf(Parsed) :
           /\ previous_issues[x] # Projection(IssueOf(Parsed, x))
           /\ previous_issues[y] = Projection(IssueOf(Parsed, y))
           /\ y \in get_open_issues_for_assignee(
                        assignee_issues, get_assigned_agent(IssueOf(Parsed, y)))

\* Issue id is not the same in the parse new as in the parse old.
Differs(old, new, id) ==
    \/ (id \in IdsOf(old)) # (id \in IdsOf(new))
    \/ id \in IdsOf(old) /\ id \in IdsOf(new) /\ IssueOf(old, id) # IssueOf(new, id)

\* C16 as stated: every notify_* call of a triggered scan is for an issue that
\* differs between the store as the parse before (the startup baseline or a
\* scan) read it and the store as this scan reads it; so the first scan raises
\* nothing when the store is as the baseline read it.
C16_OnlyPostBaselineDeltas ==
    [][ScanStep =>
           \A old \in {Parsed} : \A new \in {Parsed'} :
               \A i \in 1..Len(events') : Differs(old, new, events'[i].id)]_vars

----------------------------------------------------------------------------
(* Claims about the notification policy (SpecPolicy)                       *)

\* The scan of the parse cur from the present state, as it would run with
\* every switch on.
ScanAllOn(cur) ==
    ScanFrom(cur, 1, previous_issues,
             [ai |-> assignee_issues, events |-> <<>>, requests |-> requests,
              posts |-> 0, notify_on |-> AllOn],
             now, AllOk)

\* The events that reached send(), and those the rate limiter admitted.
Sent(evs) == {i \in 1..Len(evs) : evs[i].outcome # "skipped"}
Admitted(evs) == {i \in 1..Len(evs) : evs[i].outcome = "allowed"}

\* C17: under every setting of the created, in_progress, closed and
\* agent_complete switches a scan makes the notify_* calls it makes with all
\* switches on, and leaves the same snapshot and the same index; a call whose
\* switch is off is skipped without a transport call, a call whose switch is on
\* goes to send(); and the rate limiter records exactly the admitted calls: it
\* is untouched when every call of the scan was skipped.
C17_DisabledPolicy ==
    [][ScanStep =>
           \A cur \in {Parsed'} : \A ref \in {ScanAllOn(cur)} :
               /\ assignee_issues' = ref.ai
               /\ previous_issues' = SnapshotOf(cur)
               /\ Len(events') = Len(ref.events)
               /\ \A i \in 1..Len(events') :
                      /\ events'[i].kind = ref.events[i].kind
                      /\ events'[i].id = ref.events[i].id
                      /\ ~notify_on[events'[i].kind] =>
                             /\ events'[i].outcome = "skipped"
                             /\ ~events'[i].posted /\ ~events'[i].result
                      /\ notify_on[events'[i].kind] => events'[i].outcome # "skipped"
               /\ requests' =
                      IF Sent(events') = {} THEN requests
                      ELSE PruneOld(requests, now)
                               \o [k \in 1..Cardinality(Admitted(events')) |-> now]]_vars

\* C17's case: with the closed switch off and the agent_complete switch on, an
\* issue in its agent's set has closed: the closed notification was skipped,
\* the issue left the set, and agent_complete went to the transport.
C17_Witness ==
    /\ AfterScan
    /\ ~notify_on.closed
    /\ Len(events) = 2
    /\ events[1].kind = "closed" /\ events[1].outcome = "skipped"
    /\ events[2].kind = "agent_complete" /\ events[2].tracked /\ events[2].posted
    /\ get_open_issues_for_assignee(assignee_issues, events[2].agent) = {}

\* C18 as stated: with the review_request switch off, the one-shot notifier's
\* review request is skipped and makes no transport call.
C18_ReviewSwitch ==
    (pc = "notify_review" /\ ~notify_on.review_request) =>
        \A i \in 1..Len(events) :
            events[i].outcome = "skipped" /\ ~events[i].posted

----------------------------------------------------------------------------
(* Claims about the sanitizer (SpecSan)                                    *)

\* C19 as stated: for every text and every max_length n, what
\* sanitize_for_slack(text, n) returns is at most n characters long.
C19_LengthBound ==
    san.called => Len(san.result) <= san.max_length

\* Reading an escaped text back: each entity gives the one character it stands
\* for, every other character stands for itself.
RECURSIVE Unescape(_)
Unescape(out) ==
    IF out = <<>> THEN <<>>
    ELSE IF Len(out) >= 5 /\ SubSeq(out, 1, 5) = AmpEntity
         THEN <<38>> \o Unescape(SubSeq(out, 6, Len(out)))
    ELSE IF Len(out) >= 4 /\ SubSeq(out, 1, 4) = LtEntity
         THEN <<60>> \o Unescape(SubSeq(out, 5, Len(out)))
    ELSE IF Len(out) >= 4 /\ SubSeq(out, 1, 4) = GtEntity
         THEN <<62>> \o Unescape(SubSeq(out, 5, Len(out)))
    ELSE <<Head(out)>> \o Unescape(Tail(out))

\* C20: the result holds no '<', no '>' and none of the control characters
\* 0x00-0x08, 0x0B, 0x0C, 0x0E-0x1F, 0x7F; every '&' in it begins one of
\* &amp; &lt; &gt;; and each entity stands for exactly one character of the
\* input: read back, the result is the input's kept part (a prefix of it, with
\* an ellipsis when it was cut) without its control characters.
C20_Escaping ==
    san.called =>
        /\ \A i \in 1..Len(san.result) :
               /\ san.result[i] \notin {60, 62}
               /\ san.result[i] \notin (0..8) \cup {11, 12} \cup (14..31) \cup {127}
               /\ san.result[i] = 38 =>
                      \E e \in {AmpEntity, LtEntity, GtEntity} :
                          /\ i + Len(e) - 1 <= Len(san.result)
                          /\ SubSeq(san.result, i, i + Len(e) - 1) = e
        /\ \E k \in 0..Len(san.text) :
               \E tail \in {<<>>, <<46, 46, 46>>} :
                   Unescape(san.result) =
                       SelectSeq(
                           SubSeq(san.text, 1, k) \o tail,
                           LAMBDA c : c \notin (0..8) \cup {11, 12} \cup (14..31) \cup {127})

\* C20's case: a text holding '&', '<', '>' and BEL, short enough to be kept
\* whole, has been sanitized: three entities, and BEL gone.
C20_Witness ==
    /\ san.called
    /\ Len(san.text) <= san.max_length
    /\ {38, 60, 62, 7} \subseteq {san.text[i] : i \in 1..Len(san.text)}
    /\ Len(san.result) = 13

----------------------------------------------------------------------------
(* Claims about the configuration commands (SpecSetup)                     *)

\* The layered resolution as the specification words it: the secrets file's
\* URL if it holds one, else the config file's (a placeholder read from the
\* environment), else SLACK_WEBHOOK_URL; "" when no layer gives one.
Layered(secrets, config, env) ==
    LET fromConfig ==
            IF ~(config.exists /\ config.valid) THEN ""
            ELSE IF config.webhook_url = "${HOOK}"
                 THEN (IF env.HOOK = None THEN "" ELSE env.HOOK)
            ELSE config.webhook_url
    IN  IF secrets.exists /\ secrets.text \notin {"", Placeholder} THEN secrets.text
        ELSE IF fromConfig # "" THEN fromConfig
        ELSE IF env.SLACK_WEBHOOK_URL # None THEN env.SLACK_WEBHOOK_URL
        ELSE ""

\* None and "" both say that no endpoint was found.
Endpoint(url) == IF url = None THEN "" ELSE url

\* C28 as stated: SlackConfig.load and get_webhook_url both return the endpoint
\* of the first layer that gives one, in the order secrets file, config file,
\* SLACK_WEBHOOK_URL, and so the same endpoint.
C28_LayeredResolution ==
    outcome.op \in {"load", "get_webhook_url"} =>
        Endpoint(outcome.url) = Layered(secrets_file, config_file, environ)

\* C29 as stated: both check commands exit with 0 exactly when an endpoint is
\* configured through some layer and it answers, and with 1 otherwise.
C29_CheckExitConvention ==
    outcome.op \in {"check_config", "cli_check"} =>
        (outcome.exit = 0 <=>
            (Layered(secrets_file, config_file, environ) # "" /\ outcome.resp = "200"))

\* C30 as stated: when init_secrets_file returns True the secrets file exists
\* with mode 0600; a file that existed keeps its text; and a second call after
\* a successful one changes nothing.
C30_InitSecretsFile ==
    [][outcome'.op = "init_secrets_file" =>
           /\ outcome'.ok => (secrets_file'.exists /\ secrets_file'.mode = "0600")
           /\ secrets_file.exists => secrets_file'.text = secrets_file.text
           /\ (outcome.op = "init_secrets_file" /\ outcome.ok) =>
                  secrets_file' = secrets_file]_vars

----------------------------------------------------------------------------
(* Claims about delivery failures and malformed records                    *)

\* C26: whatever the transport answers (200, another status, a timeout or
\* request error), a scan makes the notify_* calls, takes the rate-limiter
\* slots and leaves the snapshot, the index and the state file that it leaves
\* when every post is answered with 200; send() returns True only for a post
\* that was made; and the watcher is still running.
C26_DeliveryFailureKeepsScan ==
    [][ScanStep =>
           \A cur \in {Parsed'} : \A ref \in {ScanAllOn(cur)} :
               /\ Len(events') = Len(ref.events)
               /\ \A i \in 1..Len(events') :
                      /\ events'[i].kind = ref.events[i].kind
                      /\ events'[i].id = ref.events[i].id
                      /\ events'[i].outcome = ref.events[i].outcome
                      /\ events'[i].posted = ref.events[i].posted
                      /\ events'[i].result => events'[i].posted
               /\ previous_issues' = SnapshotOf(cur)
               /\ assignee_issues' = ref.ai
               /\ requests' = ref.requests
               /\ state_file' = Save(previous_issues', assignee_issues')
               /\ running']_vars

\* C26's case: the first post of a scan failed and send() returned False, the
\* second was delivered, and both issues are in the snapshot, in memory and on
\* disk.
C26_Witness ==
    /\ AfterScan
    /\ Len(events) = 2
    /\ events[1].posted /\ ~events[1].result
    /\ events[2].posted /\ events[2].result
    /\ DOMAIN previous_issues = {events[1].id, events[2].id}
    /\ events[1].id # events[2].id
    /\ state_file = Save(previous_issues, assignee_issues)

\* C27 as stated: after a scan of a readable file, every line that holds an
\* issue, before or after a malformed line, has its id in the snapshot, in
\* memory and on disk, with the status of the last such line for that id.
C27_MalformedLinesSkipped ==
    (AfterScan /\ read_ok) =>
        \A i \in 1..Len(store) :
            store[i].json = "object" =>
                /\ store[i].id \in DOMAIN previous_issues
                /\ store[i].id \in DOMAIN state_file.previous_issues
                /\ (\A j \in (i + 1)..Len(store) :
                        store[j].json = "object" => store[j].id # store[i].id)
                       => previous_issues[store[i].id].status = store[i].status

----------------------------------------------------------------------------
(* The daemon step by step (SpecDaemon, SpecLive)                          *)

\* The observer's thread has handed an event to on_modified.
TriggerStep == running /\ running' /\ queue' = queue - 1

\* C21: a trigger that arrives less than debounce_seconds after the start of
\* the last triggered scan is dropped and changes nothing: no scan starts, and
\* the snapshot, the index, the state file, the limiter's window, the start
\* time and the lines read last stay as they were. A trigger that arrives at
\* or after the interval starts a scan of the file as it is now and records
\* its start time, so that the starts of two triggered scans are at least
\* debounce_seconds apart.
C21_Debounce ==
    [][/\ TriggerStep =>
              IF now - last_process_time < debounce_seconds
              THEN /\ scans' = scans
                   /\ UNCHANGED <<previous_issues, assignee_issues, state_file,
                                  requests, last_process_time, store, read_ok>>
              ELSE /\ scans' = Append(scans, "parsed")
                   /\ last_process_time' = now
                   /\ store' = file
       /\ (running /\ Len(scans') > Len(scans)) =>
              /\ now - last_process_time >= debounce_seconds
              /\ last_process_time' = now]_vars

\* A trigger for a change of the file was dropped: the file is not the one the
\* last scan read, and no scan is under way.
C21_Witness ==
    /\ running
    /\ pc = "on_modified"
    /\ scans = <<>>
    /\ last_process_time > 0
    /\ file # store

\* The state file holds the snapshot of the issues file as it is now.
Synced ==
    /\ state_file.exists
    /\ state_file.valid
    /\ state_file.previous_issues = SnapshotOf(parse_issues_jsonl(file, TRUE))

\* C22: every change of the issues file for which a trigger is delivered is
\* covered by a scan that reads the file at or after the change, also when
\* the trigger itself is dropped by the debounce: once the tracker has
\* stopped writing, the state file comes to hold, and keeps, the snapshot of
\* the file's final contents.
C22_NoDesynchronization == <>[]Synced

\* C23: at most one invocation of process_changes is in progress at any
\* instant, and none while the daemon is not running: the snapshot and the
\* index are never read or changed by two scans at once.
C23_SingleWriter ==
    /\ Len(scans) <= 1
    /\ ~running => scans = <<>>

\* A trigger waits in the observer's queue while a scan is under way.
C23_Witness ==
    /\ running
    /\ Len(scans) = 1
    /\ queue > 0

\* C24: the state file is written only by the save that ends a cycle (the
\* baseline's, or a scan's after its last item), and when the process stops
\* during a scan the state file still holds the complete snapshot and index
\* that the cycle before committed.
C24_PersistAtCycleEnd ==
    [][/\ state_file' # state_file =>
              \/ ~running /\ running'
              \/ \E i \in 1..Len(scans) : scans[i] \in {"diffed", "saving"}
       /\ (running /\ ~running' /\ scans # <<>>) =>
              /\ state_file'.exists
              /\ state_file'.valid]_vars

\* C25: when the process exits after SIGINT or SIGTERM, whatever the watcher
\* was doing when the signal came, the PID file is absent and the state file
\* holds the snapshot and the index that were in memory.
C25_GracefulShutdown ==
    [][(running /\ stopping /\ ~running') =>
           /\ ~pid_file'
           /\ state_file' = Save(previous_issues, assignee_issues)]_vars

\* The two halves of C24 and the single-signal case of C25, each on its own.
C24_WrittenOnlyBySave ==
    [][state_file' # state_file =>
           \/ ~running /\ running'
           \/ \E i \in 1..Len(scans) : scans[i] \in {"diffed", "saving"}]_vars

C25_JoinedExit ==
    [][(running /\ stopping /\ ~running' /\ scans = <<>>) =>
           /\ ~pid_file'
           /\ state_file' = Save(previous_issues, assignee_issues)]_vars

----------------------------------------------------------------------------
(* SecretsManager (SpecSecrets)                                            *)

\* After write_secret has returned: the file's mode is 0600, the directory's
\* 0700, and validate_permissions holds.
PermissionsAfterWrite ==
    (returned.op = "write_secret" /\ ~returned.raised) =>
        /\ secret[returned.name].exists
        /\ secret[returned.name].mode = Mode0600
        /\ secrets_dir.exists
        /\ secrets_dir.mode = Mode0700
        /\ ValidatePermissions(secret, returned.name)

\* A name whose file does not exist reads as None and does not validate.
AbsentSecret ==
    \A n \in Names :
        ~secret[n].exists =>
            /\ ReadSecret(secret, n).isNone
            /\ ~ValidatePermissions(secret, n)

\* C31: after write_secret(name, value) has returned, whatever the directory
\* and the file were before, the file has mode 0600, the directory mode 0700,
\* validate_permissions(name) is true and read_secret(name) is value without
\* its surrounding whitespace; a name never written reads as None and does
\* not validate.
C31_SecretsContract ==
    /\ PermissionsAfterWrite
    /\ AbsentSecret
    /\ (returned.op = "write_secret" /\ ~returned.raised) =>
           ReadSecret(secret, returned.name) =
               [isNone |-> FALSE, text |-> Strip(returned.value)]

----------------------------------------------------------------------------
(* The state file's mode (SpecSave)                                        *)

\* C32: at every moment at which the state file exists and holds a snapshot,
\* the moments between the write and the permission enforcement inside save()
\* included, its mode is 0600.
C32_StateFileOwnerOnly ==
    (state_file.exists /\ state_file.valid) => state_mode = Mode0600

\* Once save() has returned with its chmod done, the state file has mode 0600.
SavedOwnerOnly ==
    [][(scans # <<>> /\ scans' = <<>> /\ state_mode' # state_mode) =>
           state_mode' = Mode0600]_vars

----------------------------------------------------------------------------
(* Log lines and printed output (SpecLog)                                  *)

\* The output of the command that ran last is what it would be for any other
\* secret part of the endpoint.
SecretFree ==
    \A t \in SecretTexts :
        OutputOf(output.op, [output.url EXCEPT !.secret = t], output.allowed,
                 output.resp) = output.lines

\* C33: whatever the endpoint and whatever the outcome of send() or of a check
\* command (success, a status other than 200, a timeout, a request exception),
\* the log line and the printed output contain neither the endpoint nor its
\* secret part: a run with another secret part gives the same output.
C33_SecretRedaction ==
    (output.op # "none" /\ output.url.set) => SecretFree

\* send() with a status or a timeout for an answer, or with an exception
\* whose text quotes the whole URL or none, logs nothing of the secret.
SendRedactsFullUrl ==
    (output.op = "send" /\ output.url.set /\ output.resp # "error_path") => SecretFree

----------------------------------------------------------------------------
(* Transport gating (SpecGate)                                             *)

\* The number of entries of a sequence of clock readings that equal t.
CountAt(seq, t) == Cardinality({i \in 1..Len(seq) : seq[i] = t})

\* C34: every transport call of the notifier follows an allow() of its own
\* that admitted it, in the same send(): a scan makes as many transport calls
\* as it adds admissions to the limiter's window, none for a denied or a
\* switched-off notification, and the transport calls of the notifier that
\* are less than window_seconds old, delivered or failed, never number more
\* than max_requests. With no endpoint configured a scan makes no transport
\* call, leaves the limiter's window as it was, every send() returns False,
\* and the daemon keeps running.
C34_TransportGating ==
    [][/\ Cardinality({i \in 1..Len(transport') :
                           now' - transport'[i] < window_seconds}) <= max_requests
       /\ ScanStep =>
              /\ PostedIn(events') = CountAt(requests', now) - CountAt(requests, now)
              /\ \A i \in 1..Len(events') :
                     events'[i].posted => events'[i].outcome = "allowed"
              /\ webhook_url = "" =>
                     /\ requests' = requests
                     /\ transport' = Recent(transport, now)
                     /\ \A i \in 1..Len(events') :
                            ~events'[i].posted /\ ~events'[i].result
                     /\ running']_vars

\* C34's case: max_requests transport calls are inside the window, one of
\* them answered with a failure, and the scan's next notification was denied
\* and not posted.
C34_Witness ==
    /\ AfterScan
    /\ Cardinality({i \in 1..Len(transport) : now - transport[i] < window_seconds})
           = max_requests
    /\ \E i, j \in 1..Len(events) :
           /\ events[i].posted /\ ~events[i].result
           /\ events[j].outcome = "rate_limited" /\ ~events[j].posted

----------------------------------------------------------------------------
(* get_assigned_agent (SpecAgent)                                          *)

\* The comment text holds an "@assigned <token>" directive, and its token:
\* the word after the first "...@assigned" that has a word after it.
HasDirective(text) == \E k \in 1..(Len(text) - 1) : text[k] \in AtAssigned
TokenOf(text) ==
    text[1 + CHOOSE k \in 1..(Len(text) - 1) :
                 /\ text[k] \in AtAssigned
                 /\ \A m \in 1..(k - 1) : text[m] \notin AtAssigned]

\* C35: get_assigned_agent returns the explicit assignee when the issue has
\* one, whatever its comments say; otherwise the token of the newest comment
\* that holds an "@assigned <token>" directive; otherwise None.
C35_AssignedAgent ==
    (call.fn = "get_assigned_agent" /\ call.called) =>
        LET a == call.args.assignee
            cs == call.args.comments
            with == {i \in 1..Len(cs) : HasDirective(cs[i])}
        IN  IF a \notin {None, ""} THEN call.result = a
            ELSE IF with # {}
                 THEN call.result = TokenOf(cs[CHOOSE i \in with : \A j \in with : j <= i])
            ELSE call.result = None

\* C35's case: the issue has an assignee, and its newest comments hold
\* directives for other agents; the assignee was returned.
C35_Witness ==
    /\ call.fn = "get_assigned_agent"
    /\ call.called
    /\ call.args.assignee = "A"
    /\ Len(call.args.comments) = MaxComments
    /\ HasDirective(call.args.comments[MaxComments])
    /\ TokenOf(call.args.comments[MaxComments]) = "B"
    /\ call.result = "A"

----------------------------------------------------------------------------
(* Issues that leave the file, and ids on several lines                    *)

\* C36 as stated: a scan raises no notification for an issue the snapshot holds
\* and the parse lacks, drops its record from the snapshot and removes its id
\* from every agent's set; an id the snapshot lacks is raised as created.
C36_Vanished ==
    [][ScanStep =>
           \A cur \in {Parsed'} :
               /\ \A id \in DOMAIN previous_issues \ IdsOf(cur) :
                      /\ \A i \in 1..Len(events') :
                             /\ events'[i].id # id
                             /\ \A k \in 1..Len(events'[i].closed) :
                                    events'[i].closed[k] # id
                      /\ id \notin DOMAIN previous_issues'
                      /\ id \notin DOMAIN state_file'.previous_issues
                      /\ \A a \in DOMAIN assignee_issues' : id \notin assignee_issues'[a]
               /\ \A id \in IdsOf(cur) \ DOMAIN previous_issues :
                      Cardinality(EventsOf(events', "created", id)) = 1]_vars

\* What does hold of an issue that left the file: no notification, no record in
\* the snapshot, in memory and on disk, and created again when it is back.
C36_GoneFromSnapshot ==
    [][ScanStep =>
           \A cur \in {Parsed'} :
               /\ \A id \in DOMAIN previous_issues \ IdsOf(cur) :
                      /\ \A i \in 1..Len(events') :
                             /\ events'[i].id # id
                             /\ \A k \in 1..Len(events'[i].closed) :
                                    events'[i].closed[k] # id
                      /\ id \notin DOMAIN previous_issues'
                      /\ id \notin DOMAIN state_file'.previous_issues
               /\ \A id \in IdsOf(cur) \ DOMAIN previous_issues :
                      Cardinality(EventsOf(events', "created", id)) = 1]_vars

\* C37 as stated: when a scan raises agent_complete for an agent, no issue of
\* the scan's parse whose assigned agent is that agent is open or in_progress,
\* wherever in the file its line stands.
C37_NoCompleteWhileOutstanding ==
    [][ScanStep =>
           \A cur \in {Parsed'} : \A i \in AllComplete(events') :
               \A k \in 1..Len(cur) :
                   get_assigned_agent(cur[k]) = events'[i].agent =>
                       cur[k].status \notin Outstanding]_vars

----------------------------------------------------------------------------
(* The delivered payload (SpecPayload)                                     *)

\* One application of sanitize_for_slack to a raw field, with the limit the
\* caller passes for it.
Once(field, max_length) == sanitize_for_slack(field, max_length)

\* The text and the block texts of a payload whose fields were each sanitized
\* once.
ExpectedText ==
    IF call.fn = "notify_in_progress"
    THEN InProgressText(Once(call.args.id, IdMaxLength),
                        Once(call.args.text, TitleMaxLength),
                        IF call.args.agent # <<>>
                        THEN AgentText \o Once(call.args.agent, DefaultMaxLength)
                        ELSE <<>>)
    ELSE ReviewTextOf(Once(call.args.agent, IdMaxLength), Once(call.args.id, IdMaxLength),
                      Once(call.args.text, MessageMaxLength))
ExpectedBlocks ==
    IF call.fn = "notify_in_progress"
    THEN InProgressBlocks(Once(call.args.id, IdMaxLength),
                          Once(call.args.text, TitleMaxLength),
                          call.args.agent, Once(call.args.agent, IdMaxLength))
    ELSE ReviewBlocks(Once(call.args.agent, IdMaxLength), Once(call.args.id, IdMaxLength),
                      Once(call.args.text, MessageMaxLength))
Delivered == call.fn \in {"notify_in_progress", "notify_review"} /\ call.called

\* C38 as stated: the text of a delivered payload carries every field as one
\* application of sanitize_for_slack leaves it, the form its blocks carry.
C38_SanitizedOnce ==
    Delivered =>
        /\ call.result.text = ExpectedText
        /\ call.result.blocks = ExpectedBlocks

\* What does hold: the blocks carry every field sanitized once, and the text
\* is the sanitized form of the text whose fields were sanitized once.
C38_BlocksOnceTextTwice ==
    Delivered =>
        /\ call.result.blocks = ExpectedBlocks
        /\ call.result.text = sanitize_for_slack(ExpectedText, DefaultMaxLength)

----------------------------------------------------------------------------
(* Ids on several lines (SpecAppend)                                       *)

\* The lines of a file that hold a record of an id, and the last of them.
LinesOf(lines, id) ==
    {i \in 1..Len(lines) : lines[i].json = "object" /\ lines[i].id = id}
LastRecord(lines, id) ==
    lines[CHOOSE i \in LinesOf(lines, id) : \A j \in LinesOf(lines, id) : j <= i]

\* The notification a change of status from old (None: unknown id) to new calls for.
Classified(old, new) ==
    IF old = None THEN "created"
    ELSE IF old = new THEN None
    ELSE IF new \in {"in_progress", "closed"} THEN new
    ELSE None

\* The notifications of a scan that are about an issue's status.
StatusEvents(evs, id) ==
    {i \in 1..Len(evs) : evs[i].id = id /\ evs[i].kind # "agent_complete"}

\* C39: a scan of a file with several records of an id takes the record on the
\* last of these lines as the issue: the snapshot holds that record, and the
\* scan raises at most one status notification for the id, the one for the
\* change from the previous snapshot's status to the last record's status.
C39_LastRecordWins ==
    [][ScanStep =>
           \A id \in Ids :
               LinesOf(store', id) # {} =>
                   LET last == LastRecord(store', id)
                       old == IF id \in DOMAIN previous_issues
                              THEN previous_issues[id].status ELSE None
                       kind == Classified(old, last.status)
                   IN  /\ id \in DOMAIN previous_issues'
                       /\ previous_issues'[id] = SnapshotRecord(last)
                       /\ Cardinality(StatusEvents(events', id))
                              = IF kind = None THEN 0 ELSE 1
                       /\ \A i \in StatusEvents(events', id) :
                              /\ events'[i].kind = kind
                              /\ events'[i].old = old
                              /\ events'[i].status = last.status]_vars

\* C39's case: the file holds X as open, then as in_progress, then as closed;
\* the last two records were appended between two scans, and the scan raised
\* closed for X, from open, and no work-started notification.
C39_Witness ==
    /\ AfterScan
    /\ Len(store) = 3
    /\ \A i \in 1..3 : store[i].id = "X"
    /\ store[1].status = "open" /\ store[2].status = "in_progress"
    /\ store[3].status = "closed"
    /\ StatusEvents(events, "X") # {}
    /\ \A i \in StatusEvents(events, "X") :
           events[i].kind = "closed" /\ events[i].old = "open"

----------------------------------------------------------------------------
(* The placeholder of the secrets file (SpecSetup)                         *)

\* The secrets file holds the line init_secrets_file wrote, unedited.
Unedited == secrets_file.exists /\ secrets_file.text = Placeholder

\* C40 as stated: while the secrets file holds the unedited placeholder line,
\* SlackConfig.load and get_webhook_url resolve the endpoint as they do without
\* a secrets file, from the config file and the environment, and the
\* placeholder is never the endpoint that send() posts to.
C40_PlaceholderNotEndpoint ==
    (Unedited /\ outcome.op \in {"load", "get_webhook_url"}) =>
        /\ Endpoint(outcome.url) # Placeholder
        /\ Endpoint(outcome.url) =
               Endpoint(IF outcome.op = "load"
                        THEN SlackConfigLoad(NoSecrets, config_file, environ)
                        ELSE GetWebhookUrl(NoSecrets, config_file, environ))
        /\ webhook_url # Placeholder

\* What does hold: get_webhook_url resolves as it does without a secrets file.
C40_GetWebhookUrlSkipsPlaceholder ==
    (Unedited /\ outcome.op = "get_webhook_url") =>
        /\ Endpoint(outcome.url) # Placeholder
        /\ Endpoint(outcome.url) = Endpoint(GetWebhookUrl(NoSecrets, config_file, environ))

====
